---- MODULE Spec2Model ----
(***************************************************************************)
(* NewiMusicBot: the Now-Playing UI manager (utils/nowPlayingManager.js,   *)
(* performance-optimized version), the player control helpers              *)
(* (utils/playerControls.js), the safe transport wrappers                  *)
(* (utils/safeDiscord.js), the periodic tick (utils/updateNowPlaying.js),  *)
(* the track/queue event handlers of index.js and the reconnect manager    *)
(* (utils/reconnectManager.js).                                            *)
(*                                                                         *)
(* Node.js runs one handler at a time; a handler gives up control only at  *)
(* an await.  Every action below is one synchronous segment of a handler:  *)
(* from its start, or from the await it was suspended at, up to its next   *)
(* await or its end.  A suspended invocation is an entry of `tasks'.       *)
(* A transport call (send, edit, delete) takes effect on the channel when  *)
(* it is issued (the REST queue of the chat client is per-route and        *)
(* ordered); the awaiting handler resumes in a later step.                 *)
(***************************************************************************)
EXTENDS Integers, Sequences, FiniteSets, Bags, TLC

\* ------------------------------------------------------------------ bounds
NumGuilds == 2
MaxTracks == 2
MaxQueue == 2
MaxHistory == 1
MaxMsgs == 2
MaxTasks == 2
MaxTicks == 2
MaxFaults == 1
MaxPending == 1
MaxEvents == 3
MaxCalls == 2
\* Longest track duration for which the progress bar is computed on its own.
MaxBarTotal == 40
\* Largest magnitude of a jump target of the queue command.
MaxJump == 3

\* ------------------------------------------------------- program constants
MIN_UI_UPDATE_INTERVAL == 2000
FAST_UPDATE_INTERVAL == 500
BAR_LENGTH == 18
DEFAULT_VOLUME == 50
MS_PER_SECOND == 1000
maxReconnectAttempts == 5
reconnectDelay == 5000

Guilds == 1..NumGuilds
\* The guilds whose users and audio events drive the UI handlers.
UIGuilds == {1}
Tracks == 1..MaxTracks
MsgIds == 1..MaxMsgs
NoTrack == 0
NoMsg == 0
Never == 0
StartTime == MS_PER_SECOND
TickMs == MS_PER_SECOND
\* Every track lasts TrackDuration ms: longer than the clock runs.
TrackDuration == (MaxTicks + 1) * TickMs

Min(a, b) == IF a < b THEN a ELSE b
\* The sequences over S of length up to n.
SeqsUpTo(S, n) == UNION {[1..k -> S] : k \in 0..n}

\* ---------------------------------------------------------------- renderer
formatTime(ms) == ms \div MS_PER_SECOND

\* The bar as the string of its glyphs: "bar" for the line glyph, "knob" for
\* the button glyph; the empty string is the empty sequence.
Repeat(glyph, n) == [i \in 1..n |-> glyph]

buildProgressBarKnobCounted(current, total, barLength) ==
    IF total <= 0 THEN << >>
    ELSE LET progress == Min((current * barLength) \div total, barLength)
             remaining == barLength - progress
         IN  Repeat("bar", progress) \o << "knob" >> \o Repeat("bar", remaining - 1)

buildProgressBar(current, total, barLength) ==
    IF total <= 0 THEN << >>
    ELSE LET progress == Min((current * barLength) \div total, barLength)
             remaining == barLength - progress
         IN  Repeat("bar", progress) \o << "knob" >> \o Repeat("bar", remaining)

NullEmbed == [kind |-> "null", title |-> NoTrack, time |-> 0, bar |-> << >>,
              queue |-> << >>, status |-> "none"]

generateStoppedEmbed == [kind |-> "stopped", title |-> NoTrack, time |-> 0, bar |-> << >>,
                         queue |-> << >>, status |-> "Stopped"]

generateNowPlayingEmbed(p) ==
    IF p.current = NoTrack THEN NullEmbed
    ELSE LET currentPosition == IF p.paused /\ p.pausedPosition # -1
                                THEN p.pausedPosition ELSE p.position
         IN [kind |-> "nowplaying",
             title |-> p.current,
             time |-> formatTime(currentPosition),
             bar |-> buildProgressBar(currentPosition, TrackDuration, BAR_LENGTH),
             queue |-> p.tracks,
             status |-> IF p.paused THEN "Paused"
                        ELSE IF p.playing THEN "Playing" ELSE "Stopped"]

KeepEmbed == [NullEmbed EXCEPT !.kind = "keep"]
\* player._lastEmbedData before the first render (null), as opposed to {}
NoEmbedData == [NullEmbed EXCEPT !.kind = "unset"]

\* createButtonRow / createButtonRowWithEmojis: the five-control row
\* A row is the sequence of its buttons; !(x && x.length) is true of an absent
\* list as of an empty one, and the model's lists are never absent.
Button(id, disabled) == [customId |-> id, disabled |-> disabled]

createButtonRowSkipNeverDisabled(p) ==
    << Button("previous", Len(p.previous) = 0), Button("playpause", FALSE),
       Button("skip", FALSE), Button("shuffle", FALSE), Button("stop", FALSE) >>

createButtonRow(p) ==
    << Button("previous", Len(p.previous) = 0), Button("playpause", FALSE),
       Button("skip", Len(p.tracks) = 0), Button("shuffle", FALSE), Button("stop", FALSE) >>
confirmRow == << Button("confirmStop", FALSE), Button("cancelStop", FALSE) >>
NoComponents == << >>
\* (a payload without a components field)
KeepComponents == << Button("keep", FALSE) >>
\* The row shows the button and lets the user press it.
Enabled(row, id) == \E i \in 1..Len(row) : row[i].customId = id /\ ~row[i].disabled

\* ------------------------------------------------------------------- state
VARIABLES
    players,        \* client.lavalink.players: the guilds with a live session
    player,         \* the player object of every guild
    messages,       \* the channel's messages as the chat service shows them
    nextMsg,        \* id of the next message the channel creates
    tasks,          \* suspended handler invocations (a bag)
    timers,         \* pending one-shot timers and undelivered events, per guild
    uiUpdateQueue,  \* nowPlayingManager's map guild -> trailing throttle timer
    now,            \* Date.now()
    faultsLeft,     \* failures the transport may still answer with
    ops,            \* transport calls issued by the last step (observation)
    used,           \* commands, button presses and outside events so far
    mgr,            \* the reconnect manager and its cleanup run
    editCalls       \* message.edit calls of refreshes so far (NotCounting: not observed)
                    \* calls: first calls of a safeEdit; retries: after a rate limit

vars == << players, player, messages, nextMsg, tasks, timers, uiUpdateQueue,
           now, faultsLeft, ops, used, mgr, editCalls >>

NewPlayer ==
    [id |-> 0, current |-> NoTrack, tracks |-> << >>, previous |-> << >>,
     playing |-> FALSE, paused |-> FALSE, position |-> 0, pausedPosition |-> -1,
     voice |-> FALSE,
     nowPlayingMessage |-> NoMsg, nowPlayingCollector |-> NoMsg,
     nowPlayingInterval |-> "none",
     stopConfirmationTimeout |-> "none", pauseTimeout |-> "none",
     lastUIUpdate |-> Never, lastEmbedData |-> NoEmbedData,
     uiRefreshing |-> FALSE, volume |-> DEFAULT_VOLUME]

NoMessage ==
    [exists |-> FALSE, owner |-> 0, embed |-> NullEmbed, components |-> NoComponents,
     collecting |-> FALSE, old |-> FALSE]

\* Pending timers of a guild.  A player field that holds a timer handle is
\* "none" (null/undefined), "pending" (the handle of a timer still pending) or
\* "dead" (the handle of a timer that fired or was cleared); the counts below
\* are the timers actually pending, referenced or not.
NoTimers ==
    [fastRefresh |-> 0, normalRefresh |-> 0, trackStart |-> 0, queueEndReset |-> 0,
     stopConfirm |-> 0, pause |-> 0, interval |-> 0]

\* A suspended invocation: the handler (kind), the await it is at (pc), and the
\* locals it needs afterwards: fastUpdate, the message it edits, the payload of
\* the pending edit, the result of the transport call it awaits, and the
\* message whose collector delivered the interaction (src).
Task(g, kind, fast, src, emb) ==
    [g |-> g, kind |-> kind, pc |-> "start", fast |-> fast, msg |-> NoMsg,
     emb |-> emb, comps |-> KeepComponents, res |-> "ok", retried |-> FALSE,
     src |-> src]

\* ------------------------------------------------------------------- world
\* The part of the state one synchronous segment of a handler of guild g reads
\* and writes; a segment is a function from world to world.
World(g) ==
    [p |-> player[g], msgs |-> messages, nextMsg |-> nextMsg,
     uq |-> uiUpdateQueue[g], tm |-> timers[g], faults |-> faultsLeft,
     live |-> g \in players, spawn |-> EmptyBag, ops |-> << >>, stuck |-> FALSE]

NotCounting == [counting |-> FALSE, calls |-> 0, retries |-> 0]
Counting == [counting |-> TRUE, calls |-> 0, retries |-> 0]
IsRefreshEdit(o) == o.op = "edit" /\ o.by = "refresh" /\ ~o.retry
IsRefreshRetry(o) == o.op = "edit" /\ o.by = "refresh" /\ o.retry
NumEdits(opsDone) == Len(SelectSeq(opsDone, IsRefreshEdit))
NumRetries(opsDone) == Len(SelectSeq(opsDone, IsRefreshRetry))

ApplyWorld(g, w, done) ==
    /\ ~w.stuck
    /\ BagCardinality((tasks (-) done) (+) w.spawn) <= MaxTasks
    /\ player' = [player EXCEPT ![g] = w.p]
    /\ players' = IF w.live THEN players \cup {g} ELSE players \ {g}
    /\ messages' = w.msgs
    /\ nextMsg' = w.nextMsg
    /\ uiUpdateQueue' = [uiUpdateQueue EXCEPT ![g] = w.uq]
    /\ timers' = [timers EXCEPT ![g] = w.tm]
    /\ faultsLeft' = w.faults
    /\ tasks' = (tasks (-) done) (+) w.spawn
    /\ ops' = w.ops
    /\ editCalls' = IF ~editCalls.counting THEN editCalls
                    ELSE [editCalls EXCEPT !.calls = @ + NumEdits(w.ops),
                                           !.retries = @ + NumRetries(w.ops)]
    /\ UNCHANGED now

Apply(g, w, done) == ApplyWorld(g, w, done) /\ UNCHANGED mgr

\* A step that is a command (play), a button press (press), an event from
\* outside (env) or a direct call of a scenario (call) is counted; every other
\* step is the program's own.
Count(what) ==
    /\ used.play + used.press + used.env + used.call < MaxEvents
    /\ what = "play" => used.play < MaxTracks
    /\ what = "call" => used.call < MaxCalls
    /\ used' = [used EXCEPT ![what] = @ + 1]
Own == UNCHANGED used

Suspend(w, t) == [w EXCEPT !.spawn = @ (+) SetToBag({t})]

\* Outcomes the transport can give an awaited call.
Outcomes == {"ok", "ratelimited", "error"}
MayFail(out) == out = "ok" \/ faultsLeft > 0
Charge(w, out) == IF out = "ok" THEN w ELSE [w EXCEPT !.faults = @ - 1]

\* --------------------------------------------------------------- transport
Op(op, m, comps, by) ==
    [op |-> op, msg |-> m, comps |-> comps, by |-> by, retry |-> FALSE]
\* The call just made is the one repeated after a rate limit.
Retried(w) == [w EXCEPT !.ops[Len(w.ops)].retry = TRUE]
\* What a wrapper hands its caller once it settles: the edited message
\* (return res), undefined (a bare return, and every return of safeDelete), or
\* the rethrown error.  retry tells whether the settled call was the repeat.
WrapperReturn(w, by, settled, res, retried) ==
    [w EXCEPT !.ops = Append(@, [Op(IF settled = "thrown" THEN "throws"
                                    ELSE IF by # "safeDelete" /\ res \in {"ok", "same"}
                                    THEN "returnsMessage"
                                    ELSE "returnsUndefined",
                                    NoMsg, KeepComponents, by)
                                 EXCEPT !.retry = retried])]

\* message.edit(payload): what the channel shows afterwards, and the result
\* the caller's await will see.
MessageEdit(w, m, emb, comps, by, out) ==
    LET w1 == [Charge(w, out) EXCEPT !.ops = Append(@, Op("edit", m, comps, by))]
    IN  IF ~w.msgs[m].exists THEN [w |-> w1, res |-> "notfound"]
        ELSE IF out # "ok" THEN [w |-> w1, res |-> out]
        ELSE [w |-> [w1 EXCEPT
                       !.msgs[m].embed = IF emb = KeepEmbed THEN @ ELSE emb,
                       !.msgs[m].components = IF comps = KeepComponents THEN @ ELSE comps],
              res |-> "ok"]

\* safeEdit up to its await of message.edit.  res: "noop" (no handle), "same"
\* (content unchanged, returns the message without a call), "typeerror"
\* (embeds: [null]: e.toJSON of null throws and is rethrown), or the result of
\* the transport call.
safeEdit(w, m, emb, comps, by, out) ==
    IF m = NoMsg THEN [w |-> w, res |-> "noop"]
    ELSE IF emb = NullEmbed THEN [w |-> w, res |-> "typeerror"]
    ELSE IF emb # KeepEmbed /\ emb = w.msgs[m].embed THEN [w |-> w, res |-> "same"]
    ELSE MessageEdit(w, m, emb, comps, by, out)

\* What the await of safeEdit gives its caller: "resolved" or "thrown".
\* 10008 is swallowed; 429 is retried once (the caller is suspended meanwhile).
SafeEditSettledRethrowsNotFound(res, retried) ==
    IF res \in {"noop", "same", "ok"} THEN "resolved"
    ELSE IF res = "ratelimited" /\ ~retried THEN "retry"
    ELSE "thrown"

SafeEditSettled(res, retried) ==
    IF res \in {"noop", "same", "ok", "notfound"} THEN "resolved"
    ELSE IF res = "ratelimited" /\ ~retried THEN "retry"
    ELSE "thrown"

\* The catch of safeDelete: the same three ways out as safeEdit's.
SafeDeleteSettledRetriesAgain(res, retried) ==
    IF res \in {"noop", "ok", "notfound"} THEN "resolved"
    ELSE IF res = "ratelimited" THEN "retry"
    ELSE "thrown"

SafeDeleteSettled(res, retried) ==
    IF res \in {"noop", "ok", "notfound"} THEN "resolved"
    ELSE IF res = "ratelimited" /\ ~retried THEN "retry"
    ELSE "thrown"

\* A safeEdit nobody awaits (.catch only logs).
safeEditDetached(w, m, emb, comps, by) == safeEdit(w, m, emb, comps, by, "ok").w

\* message.delete() through safeDelete, awaited.
safeDelete(w, m, by, out) ==
    IF m = NoMsg THEN [w |-> w, res |-> "noop"]
    ELSE LET w1 == [Charge(w, out) EXCEPT !.ops = Append(@, Op("delete", m, KeepComponents, by))]
         IN  IF ~w.msgs[m].exists THEN [w |-> w1, res |-> "notfound"]
             ELSE IF out # "ok" THEN [w |-> w1, res |-> out]
             ELSE [w |-> [w1 EXCEPT !.msgs[m].exists = FALSE,
                                    !.msgs[m].collecting = FALSE],
                   res |-> "ok"]

\* collector.stop(): the 'end' listener strips the components of whatever
\* message the player references at that moment.
CollectorStop(w, c) ==
    IF c = NoMsg \/ ~w.msgs[c].collecting THEN w
    ELSE LET w1 == [w EXCEPT !.msgs[c].collecting = FALSE]
         IN  IF w1.p.nowPlayingMessage # NoMsg
             THEN safeEditDetached(w1, w1.p.nowPlayingMessage, KeepEmbed, NoComponents,
                                   "collectorEnd")
             ELSE w1

\* channel.send({embeds: [embed], components: [createButtonRow(player)]})
channelSend(w, g, emb, comps, out) ==
    IF out # "ok" THEN [w |-> Charge(w, out), msg |-> NoMsg]
    ELSE IF w.nextMsg > MaxMsgs THEN [w |-> [w EXCEPT !.stuck = TRUE], msg |-> NoMsg]
    ELSE [w |-> [w EXCEPT !.msgs[w.nextMsg] =
                              [exists |-> TRUE, owner |-> g, embed |-> emb,
                               components |-> comps, collecting |-> FALSE, old |-> FALSE],
                          !.nextMsg = @ + 1,
                          !.ops = Append(@, Op("send", w.nextMsg, comps, "ensure"))],
          msg |-> w.nextMsg]

\* ------------------------------------------------ periodic refresh interval
clearInterval(w) ==
    IF w.p.nowPlayingInterval = "active"
    THEN [w EXCEPT !.tm.interval = @ - 1, !.p.nowPlayingInterval = "none",
                   !.ops = Append(@, Op("clearInterval", NoMsg, KeepComponents, "interval"))]
    ELSE [w EXCEPT !.p.nowPlayingInterval = "none"]

setInterval(w) ==
    IF w.tm.interval >= MaxPending + 1 THEN [w EXCEPT !.stuck = TRUE]
    ELSE [w EXCEPT !.tm.interval = @ + 1, !.p.nowPlayingInterval = "active"]

\* (variant: the new handle overwrites the old one, which is not cleared)
IntervalManagementOverwrite(w) ==
    IF w.p.playing \/ w.p.paused \/ w.p.current # NoTrack THEN setInterval(w) ELSE w

\* sendOrUpdateNowPlayingUI, "Intelligent interval management"
IntervalManagement(w) ==
    LET w1 == IF w.p.nowPlayingInterval # "none" THEN clearInterval(w) ELSE w
    IN  IF w1.p.playing \/ w1.p.paused \/ w1.p.current # NoTrack
        THEN setInterval(w1) ELSE w1

\* trackStart handler, after its await of sendOrUpdateNowPlayingUI
TrackStartInterval(w) ==
    IF w.p.nowPlayingInterval = "none" THEN setInterval(w) ELSE w

\* ------------------------------------------------ sendOrUpdateNowPlayingUI
RefreshKinds == {"refresh", "trackStart", "info"}

\* What the caller of sendOrUpdateNowPlayingUI does once it has returned.
FinishRefresh(w, t) ==
    CASE t.kind = "trackStart" -> TrackStartInterval(w)
      [] t.kind = "info" -> [w EXCEPT !.p.uiRefreshing = FALSE]
      [] OTHER -> w

\* After the await of safeEdit: the catch (10008 never arrives here, safeEdit
\* has swallowed it) and the interval management.
RefreshTail(w, t, settled) == FinishRefresh(IntervalManagement(w), t)

\* An awaited safeEdit was issued with result r: go on at once when it made no
\* transport call, otherwise suspend until the call settles.
AwaitEdit(r, t, emb, comps) ==
    Suspend(r.w, [t EXCEPT !.pc = "edit", !.emb = emb, !.comps = comps, !.res = r.res])

\* (variant: without the comparison with _lastEmbedData)
RefreshAfterEnsureNoDiff(w, t, msg, out) ==
    IF msg = NoMsg THEN FinishRefresh(w, t)
    ELSE LET embed == generateNowPlayingEmbed(w.p)
             w1 == [w EXCEPT !.p.lastEmbedData = embed]
             r == safeEdit(w1, msg, embed, createButtonRow(w1.p), "refresh", out)
         IN  IF r.res \in {"noop", "same"} THEN RefreshTail(r.w, t, "resolved")
             ELSE IF r.res = "typeerror" THEN RefreshTail(r.w, t, "thrown")
             ELSE AwaitEdit(r, [t EXCEPT !.msg = msg], embed, createButtonRow(w1.p))

RefreshAfterEnsure(w, t, msg, out) ==
    IF msg = NoMsg THEN FinishRefresh(w, t)
    ELSE LET embed == generateNowPlayingEmbed(w.p)
             newData == embed
         IN  IF ~t.fast /\ w.p.lastEmbedData # NoEmbedData /\ w.p.lastEmbedData = newData
             THEN FinishRefresh(w, t)
             ELSE LET w1 == [w EXCEPT !.p.lastEmbedData = newData]
                      r == safeEdit(w1, msg, embed, createButtonRow(w1.p), "refresh", out)
                  IN  IF r.res \in {"noop", "same"} THEN RefreshTail(r.w, t, "resolved")
                      ELSE IF r.res = "typeerror" THEN RefreshTail(r.w, t, "thrown")
                      ELSE AwaitEdit(r, [t EXCEPT !.msg = msg], embed, createButtonRow(w1.p))

\* ------------------------------------------------- audio engine (library)
\* player.pause(), player.resume(): the flag changes when the call is made.
LibPause(w) == [w EXCEPT !.p.paused = TRUE]
LibResume(w) == [w EXCEPT !.p.paused = FALSE]

\* The engine starts the queue's current track; trackStart is emitted later.
LibStartTrack(w) ==
    IF w.tm.trackStart >= MaxPending THEN [w EXCEPT !.stuck = TRUE]
    ELSE [w EXCEPT !.p.position = 0, !.tm.trackStart = @ + 1]

PushPrevious(prev, tr) ==
    IF tr = NoTrack THEN prev ELSE SubSeq(<<tr>> \o prev, 1, Min(Len(prev) + 1, MaxHistory))

\* player.skip(): the current track goes to the history, the head of the
\* upcoming queue becomes current.
LibSkip(w) ==
    LibStartTrack([w EXCEPT !.p.previous = PushPrevious(@, w.p.current),
                            !.p.current = Head(w.p.tracks),
                            !.p.tracks = Tail(@)])

\* player.play() on an idle player: the head of the queue becomes current.
LibPlay(w) ==
    LibStartTrack([w EXCEPT !.p.current = Head(w.p.tracks), !.p.tracks = Tail(@),
                            !.p.playing = TRUE])

\* ------------------------------------------------------------ one-shot timers
setTimeoutFast(w) ==
    IF w.tm.fastRefresh >= MaxPending THEN [w EXCEPT !.stuck = TRUE]
    ELSE [w EXCEPT !.tm.fastRefresh = @ + 1]

\* clearTimeout(player.stopConfirmationTimeout): the field keeps the handle
clearStopConfirmation(w) ==
    IF w.p.stopConfirmationTimeout = "pending"
    THEN [w EXCEPT !.tm.stopConfirm = @ - 1, !.p.stopConfirmationTimeout = "dead"]
    ELSE w

\* player.stopConfirmationTimeout = setTimeout(restoreOriginalUI, 10_000)
setStopConfirmation(w) ==
    IF w.tm.stopConfirm >= MaxPending + 1 THEN [w EXCEPT !.stuck = TRUE]
    ELSE [w EXCEPT !.tm.stopConfirm = @ + 1, !.p.stopConfirmationTimeout = "pending"]

\* player.pauseTimeout = setTimeout(auto-stop, 20 min)
setPauseTimeout(w) ==
    IF w.tm.pause >= MaxPending + 1 THEN [w EXCEPT !.stuck = TRUE]
    ELSE [w EXCEPT !.tm.pause = @ + 1, !.p.pauseTimeout = "pending"]

\* -------------------------------------------------------------- performStop
StopKinds == {"confirmStop", "pauseTimeout", "stopCall"}

\* performStop up to its await of player.stopPlaying(true, false)
performStop(w, t) == Suspend(w, [t EXCEPT !.pc = "stopPlaying"])

\* ... from there to its await of player.setVolume
PerformStopReset(w, t) ==
    LET w1 == [w EXCEPT !.p.current = NoTrack, !.p.tracks = << >>,
                        !.p.previous = << >>, !.p.playing = FALSE, !.p.paused = FALSE]
        w2 == IF w1.p.nowPlayingCollector # NoMsg
              THEN [CollectorStop(w1, w1.p.nowPlayingCollector)
                      EXCEPT !.p.nowPlayingCollector = NoMsg]
              ELSE w1
        w3 == IF w2.p.nowPlayingInterval # "none" THEN clearInterval(w2) ELSE w2
    IN  Suspend(w3, [t EXCEPT !.pc = "setVolume"])

\* ... after the stopped payload was put on the message (or the edit threw):
\* the handle is dropped; the confirmStop case then stops its collector.
\* An exception leaves the handler (observed in `ops').
Throw(w, by) == [w EXCEPT !.ops = Append(@, Op("throw", NoMsg, KeepComponents, by))]

\* (variant: the safeEdit of performStop outside a try/catch)
PerformStopEndUncaught(w, t, settled) ==
    IF settled = "thrown" THEN Throw(w, "performStop")
    ELSE LET w1 == [w EXCEPT !.p.nowPlayingMessage = NoMsg]
         IN  IF t.kind = "confirmStop" THEN CollectorStop(w1, t.src) ELSE w1

PerformStopEnd(w, t, settled) ==
    LET w1 == [w EXCEPT !.p.nowPlayingMessage = NoMsg]
    IN  IF t.kind = "confirmStop" THEN CollectorStop(w1, t.src) ELSE w1

\* ... from the await of setVolume to the await of safeEdit, or to the end
PerformStopEdit(w, t, out) ==
    LET w1 == [w EXCEPT !.p.volume = DEFAULT_VOLUME]
    IN  IF w1.p.nowPlayingMessage = NoMsg
        THEN (IF t.kind = "confirmStop" THEN CollectorStop(w1, t.src) ELSE w1)
        ELSE LET r == safeEdit(w1, w1.p.nowPlayingMessage, generateStoppedEmbed,
                               NoComponents, "performStop", out)
             IN  IF r.res \in {"noop", "same"} THEN PerformStopEnd(r.w, t, "resolved")
                 ELSE IF r.res = "typeerror" THEN PerformStopEnd(r.w, t, "thrown")
                 ELSE AwaitEdit(r, [t EXCEPT !.msg = w1.p.nowPlayingMessage],
                                generateStoppedEmbed, NoComponents)

\* ---------------------------------------------------------- control helpers
\* togglePlayPause up to its await of player.resume() / player.pause()
togglePlayPause(w, t) ==
    IF w.p.paused
    THEN LET w1 == IF w.p.pauseTimeout # "none"
                   THEN [w EXCEPT !.tm.pause = IF w.p.pauseTimeout = "pending"
                                               THEN @ - 1 ELSE @,
                                  !.p.pauseTimeout = "none"]
                   ELSE w
         IN  Suspend(LibResume(w1), [t EXCEPT !.pc = "resume"])
    ELSE Suspend(LibPause([w EXCEPT !.p.pausedPosition = w.p.position]),
                 [t EXCEPT !.pc = "pause"])

\* performSkip up to its await of player.skip()
performSkip(w, t) ==
    IF Len(w.p.tracks) = 0 THEN [w |-> w, awaits |-> FALSE]
    ELSE [w |-> Suspend(LibSkip(w), [t EXCEPT !.pc = "skip"]), awaits |-> TRUE]

\* ------------------------------------------------------- collector, buttons
ControlIds == {"previous", "playpause", "skip", "shuffle", "stop"}
ConfirmIds == {"confirmStop", "cancelStop"}
ButtonKinds == ControlIds \cup ConfirmIds
RestoreKinds == {"restore"}

\* Math.random() of the shuffle: the index j drawn for every position i
RandomChoices ==
    {f \in [1..(MaxQueue - 1) -> 0..(MaxQueue - 1)] : \A i \in DOMAIN f : f[i] <= i}
NoRandom == [i \in 1..(MaxQueue - 1) |-> i]

\* (variant: the entry at i is overwritten instead of exchanged)
SwapOverwrite(s, i, j) == [s EXCEPT ![i] = s[j]]

\* [tracks[i], tracks[j]] = [tracks[j], tracks[i]]
Swap(s, i, j) == [s EXCEPT ![i] = s[j], ![j] = s[i]]

RECURSIVE FisherYates(_, _, _)
FisherYates(s, i, rnd) ==
    IF i <= 0 THEN s ELSE FisherYates(Swap(s, i + 1, rnd[i] + 1), i - 1, rnd)

registerCollectorOptimized(w) ==
    LET w1 == IF w.p.nowPlayingCollector # NoMsg
              THEN [CollectorStop(w, w.p.nowPlayingCollector)
                      EXCEPT !.p.nowPlayingCollector = NoMsg]
              ELSE w
        m == w1.p.nowPlayingMessage
    IN  IF m = NoMsg THEN w1
        ELSE [w1 EXCEPT !.msgs[m].collecting = w1.msgs[m].exists,
                        !.p.nowPlayingCollector = m]

\* The label a handler's transport calls carry in `ops'.
By(t) ==
    CASE t.kind \in RefreshKinds -> "refresh"
      [] t.kind \in StopKinds -> "performStop"
      [] OTHER -> t.kind

\* What a handler does once its awaited safeEdit has resolved or thrown.
AfterEdit(w, t, settled) ==
    CASE t.kind \in RefreshKinds -> RefreshTail(w, t, settled)
      [] t.kind \in StopKinds -> PerformStopEnd(w, t, settled)
      [] t.kind = "stop" -> IF settled = "resolved" THEN setStopConfirmation(w) ELSE w
      [] OTHER -> w

\* handleStopButton up to its await of safeEdit
handleStopButton(w, t, out) ==
    LET r == safeEdit(w, w.p.nowPlayingMessage, KeepEmbed, confirmRow, "stop", out)
    IN  IF r.res = "noop" THEN setStopConfirmation(r.w)
        ELSE AwaitEdit(r, [t EXCEPT !.msg = w.p.nowPlayingMessage], KeepEmbed, confirmRow)

\* (variant: the displaced current track is not put back into the queue)
handlePreviousButtonDropsCurrent(w, t) ==
    IF Len(w.p.previous) = 0 THEN w
    ELSE LET w1 == [w EXCEPT !.p.previous = Tail(@), !.p.current = Head(w.p.previous)]
         IN  Suspend(LibStartTrack(w1), [t EXCEPT !.pc = "play"])

\* handlePreviousButton up to its await of player.play
handlePreviousButton(w, t) ==
    IF Len(w.p.previous) = 0 THEN w
    ELSE LET prev == Head(w.p.previous)
             w1 == [w EXCEPT !.p.previous = Tail(@)]
         IN  IF w1.p.current # NoTrack /\ Len(w1.p.tracks) >= MaxQueue
             THEN [w EXCEPT !.stuck = TRUE]
             ELSE LET w2 == IF w1.p.current # NoTrack
                            THEN [w1 EXCEPT !.p.tracks = <<w1.p.current>> \o @]
                            ELSE w1
                      w3 == [w2 EXCEPT !.p.current = prev]
                  IN  Suspend(LibStartTrack(w3), [t EXCEPT !.pc = "play"])

handleSkipButton(w, t) ==
    LET r == performSkip(w, t)
    IN  IF r.awaits THEN r.w ELSE setTimeoutFast(r.w)

handleShuffleButton(w, t, rnd) ==
    setTimeoutFast([w EXCEPT !.p.tracks = FisherYates(@, Len(@) - 1, rnd),
                             !.ops = Append(@, Op("shuffle", NoMsg, KeepComponents,
                                                  "shuffle"))])

\* restoreOriginalUI after its await of ensureNowPlayingMessage
RestoreAfterEnsure(w, t, out) ==
    LET m == w.p.nowPlayingMessage
        r == safeEdit(w, m, t.emb, t.comps, "restore", out)
    IN  IF r.res \in {"noop", "same", "typeerror"} THEN r.w
        ELSE AwaitEdit(r, [t EXCEPT !.msg = m], t.emb, t.comps)

\* A handler after a library call of the control helpers has resolved.
AfterControl(w, t) ==
    LET w1 == CASE t.pc = "resume" -> [w EXCEPT !.p.pausedPosition = -1]
                [] t.pc = "pause" -> setPauseTimeout(w)
                [] OTHER -> w
    IN  IF t.kind \in ControlIds THEN setTimeoutFast(w1) ELSE w1

\* ------------------------------------------------- ensureNowPlayingMessage
\* The handler that awaited ensureNowPlayingMessage goes on with its result.
\* restoreOriginalUI (kind "restore") renders before it ensures.
RECURSIVE AfterEnsure(_, _, _, _, _)
RECURSIVE ensureNowPlayingMessage(_, _, _, _)

restoreOriginalUI(w, t, out, rnd) ==
    LET e == generateNowPlayingEmbed(w.p)
        emb == IF e = NullEmbed THEN generateStoppedEmbed ELSE e
    IN  ensureNowPlayingMessage(w, [t EXCEPT !.kind = "restore", !.emb = emb,
                                           !.comps = createButtonRow(w.p)], out, rnd)

AfterEnsure(w, t, msg, out, rnd) ==
    CASE t.kind \in RefreshKinds -> RefreshAfterEnsure(w, t, msg, out)
      [] t.kind \in RestoreKinds -> RestoreAfterEnsure(w, t, out)
      [] msg = NoMsg -> w
      [] t.kind = "stop" -> handleStopButton(w, t, out)
      [] t.kind = "confirmStop" -> performStop(clearStopConfirmation(w), t)
      [] t.kind = "cancelStop" -> restoreOriginalUI(clearStopConfirmation(w), t, out, rnd)
      [] t.kind = "previous" -> handlePreviousButton(w, t)
      [] t.kind = "playpause" -> togglePlayPause(w, t)
      [] t.kind = "skip" -> handleSkipButton(w, t)
      [] t.kind = "shuffle" -> handleShuffleButton(w, t, rnd)
      [] OTHER -> w

\* ... from "const embed = generateNowPlayingEmbed(player)" to the await of send
EnsureSend(w, t, out, rnd) ==
    LET embed == generateNowPlayingEmbed(w.p)
    IN  IF embed = NullEmbed
        THEN AfterEnsure([w EXCEPT !.ops = Append(@, Op("returnsNull", NoMsg,
                                                         KeepComponents, "ensure"))],
                         t, NoMsg, out, rnd)
        ELSE LET s == channelSend(w, t.g, embed, createButtonRow(w.p), out)
             IN  Suspend(s.w, [t EXCEPT !.pc = "ens_send", !.msg = s.msg])

ensureNowPlayingMessage(w, t, out, rnd) ==
    LET m == w.p.nowPlayingMessage
    IN  IF m # NoMsg
        THEN IF w.msgs[m].old
             THEN LET r == safeDelete(w, m, "ensure", out)
                  IN  Suspend(r.w, [t EXCEPT !.pc = "ens_delete", !.msg = m, !.res = r.res])
             ELSE AfterEnsure(w, t, m, out, rnd)
        ELSE EnsureSend(w, t, out, rnd)

\* ... after the await of channel.send
EnsureSentNoCollector(w, t, out, rnd) ==
    IF t.msg = NoMsg THEN AfterEnsure(w, t, NoMsg, out, rnd)
    ELSE AfterEnsure([w EXCEPT !.p.nowPlayingMessage = t.msg], t, t.msg, out, rnd)

EnsureSent(w, t, out, rnd) ==
    IF t.msg = NoMsg THEN AfterEnsure(w, t, NoMsg, out, rnd)
    ELSE LET w1 == registerCollectorOptimized([w EXCEPT !.p.nowPlayingMessage = t.msg])
         IN  AfterEnsure(w1, t, w1.p.nowPlayingMessage, out, rnd)

\* ... after the await of safeDelete (resolved or thrown: the handle is dropped)
EnsureDeleted(w, t, out, rnd) ==
    IF SafeDeleteSettled(t.res, t.retried) = "retry"
    THEN LET r == safeDelete(w, t.msg, "ensure", out)
         IN  Suspend(r.w, [t EXCEPT !.res = r.res, !.retried = TRUE])
    ELSE EnsureSend([w EXCEPT !.p.nowPlayingMessage = NoMsg],
                    [t EXCEPT !.retried = FALSE], out, rnd)

\* ------------------------------------------------ sendOrUpdateNowPlayingUI
\* From the call to the first await (or the return of the throttled call).
sendOrUpdateNowPlayingUI(w, t, out, rnd) ==
    LET minInterval == IF t.fast THEN FAST_UPDATE_INTERVAL ELSE MIN_UI_UPDATE_INTERVAL
    IN  IF w.p.lastUIUpdate # Never /\ now - w.p.lastUIUpdate < minInterval /\ ~t.fast
        THEN FinishRefresh(IF w.uq = Never THEN [w EXCEPT !.uq = now + minInterval] ELSE w, t)
        ELSE ensureNowPlayingMessage([w EXCEPT !.uq = Never, !.p.lastUIUpdate = now],
                                     t, out, rnd)

\* ---------------------------------------------------------- updateNowPlaying
updateNowPlaying(w) ==
    LET m == w.p.nowPlayingMessage
        embed == IF w.p.current # NoTrack THEN generateNowPlayingEmbed(w.p)
                 ELSE generateStoppedEmbed
    IN  IF m = NoMsg THEN w
        ELSE IF w.p.stopConfirmationTimeout # "none"
        THEN safeEditDetached(w, m, embed, KeepComponents, "tick")
        ELSE safeEditDetached(w, m, embed,
                              IF w.p.current # NoTrack THEN createButtonRow(w.p)
                              ELSE NoComponents, "tick")

\* The callback of the refresh interval (both places that create it).
IntervalCallback(w) ==
    IF w.p.playing \/ w.p.paused THEN updateNowPlaying(w) ELSE clearInterval(w)

\* ------------------------------------------------------ index.js resetPlayerUI
resetPlayerUI(w) ==
    LET w1 == IF w.p.nowPlayingInterval # "none" THEN clearInterval(w) ELSE w
        w2 == IF w1.p.nowPlayingCollector # NoMsg
              THEN [CollectorStop(w1, w1.p.nowPlayingCollector)
                      EXCEPT !.p.nowPlayingCollector = NoMsg]
              ELSE w1
        w3 == [w2 EXCEPT !.p.lastUIUpdate = Never, !.p.lastEmbedData = NoEmbedData,
                         !.p.pausedPosition = -1, !.p.uiRefreshing = FALSE,
                         !.p.previous = << >>, !.p.tracks = << >>]
        m == w3.p.nowPlayingMessage
    IN  IF m = NoMsg THEN w3
        ELSE [MessageEdit(w3, m, generateStoppedEmbed, NoComponents, "reset", "ok").w
                EXCEPT !.p.nowPlayingMessage = NoMsg]

\* ------------------------------------------------------------------ actions
NoTasks == EmptyBag
Done(t) == SetToBag({t})
Rnd(kind) == IF kind = "shuffle" THEN RandomChoices ELSE {NoRandom}

\* play command, up to its await of loadingMsg.delete(): the player is created
\* if the guild has none and the track is added to the queue.
PlayCommand(g, tr) ==
    /\ Len(player[g].tracks) < MaxQueue
    /\ tr = used.play + 1
    /\ Count("play")
    /\ LET w == World(g)
           w0 == IF w.live THEN w
                 ELSE [w EXCEPT !.live = TRUE,
                                !.p = [NewPlayer EXCEPT !.id = w.p.id + 1, !.voice = TRUE]]
           w1 == [w0 EXCEPT !.p.tracks = Append(@, tr)]
       IN  Apply(g, Suspend(w1, [Task(g, "play", FALSE, NoMsg, KeepEmbed)
                                   EXCEPT !.pc = "play_add"]), NoTasks)

\* ... from there: playback is started if the player is idle, and the UI
\* refresh is scheduled 100 ms later.
PlayStart(w, t) ==
    LET w1 == IF ~w.p.playing /\ ~w.p.paused /\ Len(w.p.tracks) > 0 THEN LibPlay(w) ELSE w
    IN  IF w1.tm.normalRefresh >= MaxPending THEN [w1 EXCEPT !.stuck = TRUE]
        ELSE [w1 EXCEPT !.tm.normalRefresh = @ + 1]

\* The 100 ms timer of the play command: a normal refresh.
NormalRefreshTimer(g, out) ==
    /\ Own
    /\ timers[g].normalRefresh > 0
    /\ MayFail(out)
    /\ LET w == [World(g) EXCEPT !.tm.normalRefresh = @ - 1]
       IN  Apply(g, sendOrUpdateNowPlayingUI(w, Task(g, "refresh", FALSE, NoMsg, KeepEmbed),
                                            out, NoRandom), NoTasks)

\* The 100 ms / 500 ms timer of a button handler: a fast refresh.
FastRefreshTimer(g, out) ==
    /\ Own
    /\ timers[g].fastRefresh > 0
    /\ MayFail(out)
    /\ LET w == [World(g) EXCEPT !.tm.fastRefresh = @ - 1]
       IN  Apply(g, sendOrUpdateNowPlayingUI(w, Task(g, "refresh", TRUE, NoMsg, KeepEmbed),
                                            out, NoRandom), NoTasks)

\* The trailing timer of a throttled refresh.
TrailingTimer(g, out) ==
    /\ Own
    /\ uiUpdateQueue[g] # Never
    /\ now >= uiUpdateQueue[g]
    /\ MayFail(out)
    /\ LET w == [World(g) EXCEPT !.uq = Never]
       IN  Apply(g, sendOrUpdateNowPlayingUI(w, Task(g, "refresh", FALSE, NoMsg, KeepEmbed),
                                            out, NoRandom), NoTasks)

\* trackStart: the engine reports the track as playing; the handler resets the
\* UI tracking fields and (setImmediate) runs a fast refresh.
TrackStart(g, out) ==
    /\ Own
    /\ timers[g].trackStart > 0
    /\ MayFail(out)
    /\ LET w == [World(g) EXCEPT !.tm.trackStart = @ - 1,
                                 !.p.playing = TRUE, !.p.paused = FALSE,
                                 !.p.lastUIUpdate = Never,
                                 !.p.lastEmbedData = NoEmbedData,
                                 !.p.pausedPosition = -1,
                                 !.p.volume = DEFAULT_VOLUME]
       IN  Apply(g, sendOrUpdateNowPlayingUI(w, Task(g, "trackStart", TRUE, NoMsg, KeepEmbed),
                                            out, NoRandom), NoTasks)

\* The current track ends: the engine starts the next one, or reports the end
\* of the queue, and the handler schedules resetPlayerUI.
TrackEnd(g) ==
    /\ Count("env")
    /\ player[g].current # NoTrack
    /\ player[g].playing
    /\ timers[g].trackStart = 0
    /\ LET w == World(g)
       IN  IF Len(w.p.tracks) > 0 THEN Apply(g, LibSkip(w), NoTasks)
           ELSE /\ w.tm.queueEndReset < MaxPending
                /\ Apply(g, [w EXCEPT !.p.previous = PushPrevious(@, w.p.current),
                                      !.p.current = NoTrack, !.p.playing = FALSE,
                                      !.p.position = 0,
                                      !.tm.queueEndReset = @ + 1], NoTasks)

QueueEndReset(g) ==
    /\ Own
    /\ timers[g].queueEndReset > 0
    /\ Apply(g, resetPlayerUI([World(g) EXCEPT !.tm.queueEndReset = @ - 1]), NoTasks)

IntervalTick(g) ==
    /\ Own
    /\ timers[g].interval > 0
    /\ Apply(g, IntervalCallback(World(g)), NoTasks)

\* A pending stop-confirmation timer fires: the one the player references, or
\* one whose handle was overwritten.
StopConfirmFire(g, referenced, out) ==
    /\ Own
    /\ timers[g].stopConfirm > 0
    /\ referenced => player[g].stopConfirmationTimeout = "pending"
    /\ ~referenced => timers[g].stopConfirm >
                         (IF player[g].stopConfirmationTimeout = "pending" THEN 1 ELSE 0)
    /\ MayFail(out)
    /\ LET w == [World(g) EXCEPT !.tm.stopConfirm = @ - 1,
                                 !.p.stopConfirmationTimeout =
                                     IF referenced THEN "dead" ELSE @]
       IN  Apply(g, restoreOriginalUI(w, Task(g, "restore", FALSE, NoMsg, KeepEmbed),
                                      out, NoRandom), NoTasks)

\* A pending pause timer fires (20 minutes after a pause).
PauseTimeoutFire(g, referenced) ==
    /\ Own
    /\ timers[g].pause > 0
    /\ referenced => player[g].pauseTimeout = "pending"
    /\ ~referenced => timers[g].pause > (IF player[g].pauseTimeout = "pending" THEN 1 ELSE 0)
    /\ LET w == [World(g) EXCEPT !.tm.pause = @ - 1,
                                 !.p.pauseTimeout = IF referenced THEN "dead" ELSE @]
       IN  Apply(g, IF w.p.paused
                    THEN performStop(w, Task(g, "pauseTimeout", FALSE, NoMsg, KeepEmbed))
                    ELSE w, NoTasks)

\* A user presses a button the message shows; its collector delivers it.
Press(g, m, id, out, rnd) ==
    /\ rnd \in Rnd(id)
    /\ Count("press")
    /\ messages[m].exists /\ messages[m].collecting /\ messages[m].owner = g
    /\ Enabled(messages[m].components, id)
    /\ MayFail(out)
    /\ Apply(g, ensureNowPlayingMessage(World(g), Task(g, id, FALSE, m, KeepEmbed), out, rnd),
             NoTasks)

\* An awaited safeEdit settles: retried once after a rate limit.
ResumeEdit(w, t, out) ==
    LET settled == SafeEditSettled(t.res, t.retried)
    IN  IF settled # "retry"
        THEN AfterEdit(WrapperReturn(w, By(t), settled, t.res, t.retried), t, settled)
        ELSE LET r == safeEdit(w, t.msg, t.emb, t.comps, By(t), out)
             IN  IF r.res \in {"noop", "same"}
                 THEN AfterEdit(WrapperReturn(r.w, By(t), "resolved", r.res, TRUE),
                                t, "resolved")
                 ELSE IF r.res = "typeerror"
                 THEN AfterEdit(WrapperReturn(r.w, By(t), "thrown", r.res, TRUE),
                                t, "thrown")
                 ELSE AwaitEdit([r EXCEPT !.w = Retried(r.w)],
                                [t EXCEPT !.retried = TRUE], t.emb, t.comps)

\* safeDelete goes on after its await of message.delete(): it returns,
\* rethrows, or waits retry_after and calls itself once more.
ResumeDelete(w, t, out) ==
    LET settled == SafeDeleteSettled(t.res, t.retried)
    IN  IF settled # "retry" THEN WrapperReturn(w, By(t), settled, t.res, t.retried)
        ELSE LET r == safeDelete(w, t.msg, By(t), out)
             IN  Suspend(Retried(r.w), [t EXCEPT !.res = r.res, !.retried = TRUE])

\* ---------------------------------------------------- queue command (jump)
\* Number(args[0]) of the queue command: NaN, or a number counted in halves
\* (halves = 2 * target), so that "1" is 2 halves and "1.5" is 3.
NotANumber == [nan |-> TRUE, halves |-> 0]
Target(halves) == [nan |-> FALSE, halves |-> halves]
JumpTargets == {NotANumber} \cup {Target(k) : k \in (-2 * MaxJump)..(2 * MaxJump)}

RECURSIVE Reverse(_)
Reverse(s) == IF s = << >> THEN << >> ELSE Append(Reverse(Tail(s)), Head(s))

\* Array.prototype.slice(start, end) with integer bounds, on a 1-based sequence
slice(s, start, end) ==
    LET from == Min(IF start < 0 THEN 0 ELSE start, Len(s))
        to == Min(IF end < 0 THEN 0 ELSE end, Len(s))
    IN  IF to <= from THEN << >> ELSE SubSeq(s, from + 1, to)

\* getMergedQueue(player)
getMergedQueue(p) == Reverse(p.previous) \o << p.current >> \o p.tracks

\* player.play({ clientTrack }): the given track is started; without a track
\* the call is player.play() on a player that has no current track.
LibPlayTrack(w, t, clientTrack) ==
    IF clientTrack # NoTrack THEN Suspend(LibStartTrack(w), [t EXCEPT !.pc = "jump_play"])
    ELSE IF Len(w.p.tracks) > 0 THEN Suspend(LibPlay(w), [t EXCEPT !.pc = "jump_play"])
    ELSE Throw(w, "queue")

\* queue.execute with an argument, up to its await of player.play.  The index
\* is counted in halves as the target is; slice truncates a fractional bound
\* and merged[targetIndex] is undefined when targetIndex is not an integer.
queueExecute(w, t, arg) ==
    LET said == [w EXCEPT !.ops = Append(@, [op |-> "queueJump", target |-> arg])]
        refused == [said EXCEPT !.ops = Append(@, Op("reply", NoMsg, KeepComponents, "queue"))]
    IN  IF w.p.current = NoTrack \/ arg.nan THEN refused
        ELSE LET historyCount == Len(w.p.previous)
                 merged == getMergedQueue(w.p)
                 index2 == 2 * historyCount + arg.halves
                 floor == index2 \div 2
             IN  IF index2 < 0 \/ index2 >= 2 * Len(merged) THEN refused
                 ELSE LET newHistory == slice(merged, 0, floor)
                          newCurrent == IF index2 % 2 = 0 THEN merged[floor + 1] ELSE NoTrack
                          newUpcoming == slice(merged, (index2 + 2) \div 2, Len(merged))
                          w1 == [said EXCEPT !.p.previous = Reverse(newHistory),
                                             !.p.current = newCurrent,
                                             !.p.tracks = newUpcoming]
                      IN  LibPlayTrack(w1, t, newCurrent)

\* ... after player.play has resolved: "Jumped to track number ..." is sent.
QueueJumped(w, t) ==
    [w EXCEPT !.ops = Append(@, Op("reply", NoMsg, KeepComponents, "queue"))]

\* info.execute up to its first await: refused while a manual refresh is in
\* progress (a reply is sent, nothing else); otherwise the flag is set and the
\* status message, if there is one, is deleted with message.delete().
infoExecute(w, t, out, rnd) ==
    IF w.p.uiRefreshing
    THEN [w EXCEPT !.ops = Append(@, Op("reply", NoMsg, KeepComponents, "info"))]
    ELSE LET w1 == [w EXCEPT !.p.uiRefreshing = TRUE]
             m == w1.p.nowPlayingMessage
         IN  IF m = NoMsg THEN sendOrUpdateNowPlayingUI(w1, t, out, rnd)
             ELSE LET r == safeDelete(w1, m, "info", out)
                  IN  Suspend(r.w, [t EXCEPT !.pc = "info_delete", !.msg = m,
                                             !.res = r.res])

\* ... after the delete has settled (a failure is only logged): the handle is
\* dropped and the refresh is requested; the flag is cleared when it returns.
InfoDeleted(w, t, out, rnd) ==
    sendOrUpdateNowPlayingUI([w EXCEPT !.p.nowPlayingMessage = NoMsg],
                             [t EXCEPT !.pc = "start", !.msg = NoMsg, !.res = "ok"],
                             out, rnd)

\* A suspended handler goes on after its await.
Resume(t, out, rnd) ==
    /\ rnd \in Rnd(t.kind)
    /\ Own
    /\ t \in BagToSet(tasks)
    /\ MayFail(out)
    /\ LET w == World(t.g)
       IN  Apply(t.g,
                 CASE t.pc = "ens_send" -> EnsureSent(w, t, out, rnd)
                   [] t.pc = "ens_delete" -> EnsureDeleted(w, t, out, rnd)
                   [] t.pc = "edit" -> ResumeEdit(w, t, out)
                   [] t.pc = "delete" -> ResumeDelete(w, t, out)
                   [] t.pc = "stopPlaying" -> PerformStopReset(w, t)
                   [] t.pc = "setVolume" -> PerformStopEdit(w, t, out)
                   [] t.pc = "play_add" -> PlayStart(w, t)
                   [] t.pc = "info_delete" -> InfoDeleted(w, t, out, rnd)
                   [] t.pc = "jump_play" -> QueueJumped(w, t)
                   [] OTHER -> AfterControl(w, t),
                 Done(t))

\* ------------------------------------------------------------- environment
\* player.position of a playing session follows the clock.
Advance(p) ==
    IF p.current # NoTrack /\ p.playing /\ ~p.paused /\ p.position + TickMs < TrackDuration
    THEN [p EXCEPT !.position = @ + TickMs] ELSE p

\* The clock advances by TickMs.  The timers of 100 ms and 500 ms and a due
\* trailing timer fire before it does.
Tick ==
    /\ now < StartTime + MaxTicks * TickMs
    /\ \A g \in Guilds : uiUpdateQueue[g] = Never \/ now < uiUpdateQueue[g]
    /\ \A g \in Guilds : timers[g].fastRefresh = 0 /\ timers[g].normalRefresh = 0
    /\ now' = now + TickMs
    /\ player' = [g \in Guilds |-> Advance(player[g])]
    /\ ops' = << >>
    /\ UNCHANGED << players, messages, nextMsg, tasks, timers, uiUpdateQueue,
                    faultsLeft, used, mgr, editCalls >>

\* A user deletes a message; its collector ends.
UserDeletesMessage(m) ==
    /\ Count("env")
    /\ messages[m].exists
    /\ LET g == messages[m].owner
           w == World(g)
           w1 == [w EXCEPT !.msgs[m].exists = FALSE]
       IN  Apply(g, IF w1.msgs[m].collecting THEN CollectorStop(w1, m) ELSE w1, NoTasks)

\* The collector of a message ends by its idle or total timeout.
CollectorExpire(m) ==
    /\ Count("env")
    /\ messages[m].exists /\ messages[m].collecting
    /\ Apply(messages[m].owner, CollectorStop(World(messages[m].owner), m), NoTasks)

\* A message becomes older than one hour.
MessageAges(m) ==
    /\ Count("env")
    /\ messages[m].exists /\ ~messages[m].old
    /\ LET g == messages[m].owner
       IN  Apply(g, [World(g) EXCEPT !.msgs[m].old = TRUE], NoTasks)

\* ---------------------------------------------------- reconnect manager
\* isCleaningUp: the guard of _forceCleanupAndReconnect; flagTimer: its 2 s
\* timer is pending.  pc: where _emergencyCleanupAllPlayers is suspended;
\* snapshot, pos: Array.from(players.entries()) and the entry being cleaned;
\* res, retried: the awaited safeEdit; threw: steps that have thrown so far;
\* completed: the last run of _emergencyCleanupAllPlayers has returned;
\* runs: executions of _emergencyCleanupAllPlayers in progress.
\* connected: node.connected; attempts: reconnectAttempts.get(node.id) || 0;
\* reconnectTimers: pending timers of _scheduleReconnect; scheduled: the delays
\* of the timers scheduled since the last nodeConnect; handled: the node-down
\* signals whose handling began since the last nodeConnect.
NewManager ==
    [isCleaningUp |-> FALSE, flagTimer |-> FALSE, pc |-> "idle", snapshot |-> << >>,
     pos |-> 0, res |-> "ok", retried |-> FALSE, threw |-> 0, completed |-> FALSE,
     runs |-> 0, connected |-> TRUE, attempts |-> 0, reconnectTimers |-> 0,
     scheduled |-> << >>, handled |-> 0,
     healthCheckInterval |-> "null", quickHealthCheckInterval |-> "undefined",
     healthTimers |-> 0,
     intervals |-> {}, timeouts |-> {}, sweepTimers |-> 0]

RECURSIVE SeqOf(_)
SeqOf(S) == IF S = {} THEN << >>
            ELSE LET x == CHOOSE y \in S : \A z \in S : y <= z
                 IN  <<x>> \o SeqOf(S \ {x})

Entries == [i \in 1..Cardinality(players) |->
               [g |-> SeqOf(players)[i], id |-> player[SeqOf(players)[i]].id]]

CleanupGuild == mgr.snapshot[mgr.pos].g
\* The entry's player object is the one the guild has now.
SameObject == player[CleanupGuild].id = mgr.snapshot[mgr.pos].id

\* "2) Stop intervals and collectors" and "3) Clear player state"
CleanupReset(w) ==
    LET w1 == IF w.p.nowPlayingInterval # "none" THEN clearInterval(w) ELSE w
        w2 == IF w1.p.nowPlayingCollector # NoMsg
              THEN [CollectorStop(w1, w1.p.nowPlayingCollector)
                      EXCEPT !.p.nowPlayingCollector = NoMsg]
              ELSE w1
    IN  [w2 EXCEPT !.p.current = NoTrack, !.p.tracks = << >>, !.p.previous = << >>,
                   !.p.playing = FALSE, !.p.paused = FALSE]

\* After the try/catch around the awaited safeEdit: the handle is dropped
\* whether the edit resolved or threw.
CleanupAfterEdit(w, settled) == CleanupReset([w EXCEPT !.p.nowPlayingMessage = NoMsg])

\* player.disconnect / connection.destroy / voice.disconnect, each in its own
\* try/catch: the bot leaves the voice channel unless the call threw.
CleanupDisconnect(w, threw) == IF threw THEN w ELSE [w EXCEPT !.p.voice = FALSE]

\* (variant: the removal inside the try of player.destroy())
CleanupRemoveInsideTry(w, threw) == IF threw THEN w ELSE [w EXCEPT !.live = FALSE]

\* After the try/catch around player.destroy(): "6) Remove from cache".
CleanupRemove(w, threw) == [w EXCEPT !.live = FALSE]

Threw(threw) == IF threw THEN mgr.threw + 1 ELSE mgr.threw

\* (variant: _forceCleanupAndReconnect without its guard)
CleanupGuardOff == FALSE

\* _forceCleanupAndReconnect: "if (this.isCleaningUp) return"
CleanupGuard == mgr.isCleaningUp

\* A node-down signal (nodeDisconnect, nodeDestroy, nodeError, failed health
\* check) calls _forceCleanupAndReconnect.
NodeDown ==
    /\ Count("env")
    /\ IF CleanupGuard THEN UNCHANGED mgr
       ELSE IF mgr.pc = "idle"
       THEN mgr' = [mgr EXCEPT !.isCleaningUp = TRUE, !.snapshot = Entries, !.pos = 1,
                               !.pc = IF players = {} THEN "finally" ELSE "enter",
                               !.threw = 0, !.completed = FALSE, !.retried = FALSE,
                               !.runs = @ + 1, !.handled = @ + 1]
       ELSE mgr' = [mgr EXCEPT !.isCleaningUp = TRUE, !.runs = @ + 1,
                               !.handled = @ + 1]
    /\ ops' = IF CleanupGuard
              THEN << Op("skipDuplicate", NoMsg, KeepComponents, "cleanup") >>
              ELSE << >>
    /\ UNCHANGED << players, player, messages, nextMsg, tasks, timers, uiUpdateQueue,
                    now, faultsLeft, editCalls >>

\* The loop body up to its first await: the awaited safeEdit of the stored
\* message, or player.disconnect when the session has no message.
CleanupEnter(out) ==
    /\ Own
    /\ mgr.pc = "enter"
    /\ MayFail(out)
    /\ LET g == CleanupGuild
           w == World(g)
           m == w.p.nowPlayingMessage
           r == safeEdit(w, m, generateStoppedEmbed, NoComponents, "cleanup", out)
       IN  IF ~SameObject
           THEN ApplyWorld(g, w, NoTasks) /\ mgr' = [mgr EXCEPT !.pc = "disconnect"]
           ELSE IF m = NoMsg
           THEN /\ ApplyWorld(g, CleanupReset(w), NoTasks)
                /\ mgr' = [mgr EXCEPT !.pc = "disconnect"]
           ELSE IF r.res = "same"
           THEN /\ ApplyWorld(g, CleanupAfterEdit(r.w, "resolved"), NoTasks)
                /\ mgr' = [mgr EXCEPT !.pc = "disconnect"]
           ELSE /\ ApplyWorld(g, r.w, NoTasks)
                /\ mgr' = [mgr EXCEPT !.pc = "edit", !.res = r.res, !.retried = FALSE]

\* The awaited safeEdit settles (after one retry if it was rate-limited).
CleanupEdited(out) ==
    /\ Own
    /\ mgr.pc = "edit"
    /\ MayFail(out)
    /\ LET g == CleanupGuild
           w == World(g)
           settled == SafeEditSettled(mgr.res, mgr.retried)
           r == safeEdit(w, w.p.nowPlayingMessage, generateStoppedEmbed, NoComponents,
                         "cleanup", out)
       IN  IF settled = "retry" /\ r.res \notin {"noop", "same"}
           THEN /\ ApplyWorld(g, r.w, NoTasks)
                /\ mgr' = [mgr EXCEPT !.res = r.res, !.retried = TRUE]
           ELSE /\ ApplyWorld(g, CleanupAfterEdit(w, settled), NoTasks)
                /\ mgr' = [mgr EXCEPT !.pc = "disconnect",
                                      !.threw = Threw(settled = "thrown")]

\* The awaits of player.disconnect and guild.members.me.voice.disconnect.
CleanupDisconnected(threw) ==
    /\ Own
    /\ mgr.pc \in {"disconnect", "voice"}
    /\ LET g == CleanupGuild
           w0 == World(g)
           w == IF mgr.pc = "disconnect"
                THEN [w0 EXCEPT !.ops = Append(@, Op("playerDisconnect", NoMsg,
                                                     KeepComponents, "cleanup"))]
                ELSE IF w0.p.voice
                THEN [w0 EXCEPT !.ops = Append(@, Op("voiceDisconnect", NoMsg,
                                                     KeepComponents, "cleanup"))]
                ELSE w0
       IN  /\ ApplyWorld(g, IF SameObject THEN CleanupDisconnect(w, threw) ELSE w, NoTasks)
           /\ mgr' = [mgr EXCEPT !.pc = IF mgr.pc = "disconnect" THEN "voice" ELSE "destroy",
                                 !.threw = Threw(threw)]

\* The await of player.destroy() and the removal from the map.
CleanupDestroyed(threw) ==
    /\ Own
    /\ mgr.pc = "destroy"
    /\ LET g == CleanupGuild
       IN  /\ ApplyWorld(g, CleanupRemove(World(g), threw), NoTasks)
           /\ mgr' = [mgr EXCEPT !.pos = IF @ < Len(mgr.snapshot) THEN @ + 1 ELSE @,
                                 !.pc = IF mgr.pos < Len(mgr.snapshot) THEN "enter"
                                        ELSE "finally",
                                 !.threw = Threw(threw)]

\* Math.pow(2, attempts)
RECURSIVE Pow2(_)
Pow2(n) == IF n = 0 THEN 1 ELSE 2 * Pow2(n - 1)

\* _scheduleReconnect(node), on the manager record m
ScheduleReconnect(m) ==
    IF m.attempts >= maxReconnectAttempts THEN m
    ELSE [m EXCEPT !.scheduled = Append(@, reconnectDelay * Pow2(m.attempts)),
                   !.attempts = @ + 1,
                   !.reconnectTimers = @ + 1]

\* _emergencyCleanupAllPlayers has returned: _scheduleReconnect(node), then
\* the finally block of _forceCleanupAndReconnect starts the 2 s timer of the
\* guard.
CleanupFinally ==
    /\ Own
    /\ mgr.pc = "finally"
    /\ mgr' = ScheduleReconnect([mgr EXCEPT !.pc = "idle", !.completed = TRUE,
                                            !.flagTimer = TRUE, !.runs = @ - 1])
    /\ ops' = << >>
    /\ UNCHANGED << players, player, messages, nextMsg, tasks, timers, uiUpdateQueue,
                    now, faultsLeft, editCalls >>

CleanupFlagReset ==
    /\ Own
    /\ mgr.flagTimer
    /\ mgr' = [mgr EXCEPT !.flagTimer = FALSE, !.isCleaningUp = FALSE]
    /\ ops' = << >>
    /\ UNCHANGED << players, player, messages, nextMsg, tasks, timers, uiUpdateQueue,
                    now, faultsLeft, editCalls >>

\* The "nodeConnect" handler: the attempt counter of the node is deleted.
OnNodeConnect(m) ==
    [m EXCEPT !.connected = TRUE, !.attempts = 0, !.scheduled = << >>, !.handled = 0]

\* A timer of _scheduleReconnect fires: node.connect() if the node is not
\* connected (a failure schedules the next attempt), else the counter is
\* deleted.
ReconnectFire(ok) ==
    /\ Own
    /\ mgr.reconnectTimers > 0
    /\ LET m == [mgr EXCEPT !.reconnectTimers = @ - 1]
       IN  mgr' = IF ~m.connected
                  THEN IF ok THEN OnNodeConnect(m) ELSE ScheduleReconnect(m)
                  ELSE [m EXCEPT !.attempts = 0]
    /\ ops' = IF mgr.connected THEN << >>
              ELSE << Op("connect", NoMsg, KeepComponents, "reconnect") >>
    /\ UNCHANGED << players, player, messages, nextMsg, tasks, timers, uiUpdateQueue,
                    now, faultsLeft, editCalls >>

\* The connection to the node is lost.
NodeLost ==
    /\ Count("env")
    /\ mgr.connected
    /\ mgr' = [mgr EXCEPT !.connected = FALSE]
    /\ ops' = << >>
    /\ UNCHANGED << players, player, messages, nextMsg, tasks, timers, uiUpdateQueue,
                    now, faultsLeft, editCalls >>

\* The library has reconnected the node by itself: "nodeConnect".
NodeConnect ==
    /\ Count("env")
    /\ ~mgr.connected
    /\ mgr' = OnNodeConnect(mgr)
    /\ ops' = << >>
    /\ UNCHANGED << players, player, messages, nextMsg, tasks, timers, uiUpdateQueue,
                    now, faultsLeft, editCalls >>

\* voiceStateUpdate: the bot was disconnected from its voice channel.
Kicked(g) ==
    /\ Count("env")
    /\ g \in players /\ player[g].voice
    /\ Apply(g, [World(g) EXCEPT !.p.voice = FALSE, !.live = FALSE], NoTasks)

\* The state after start-up: no session, an empty channel.
Start ==
    /\ players = {}
    /\ player = [g \in Guilds |-> NewPlayer]
    /\ messages = [m \in MsgIds |-> NoMessage]
    /\ nextMsg = 1
    /\ tasks = EmptyBag
    /\ timers = [g \in Guilds |-> NoTimers]
    /\ uiUpdateQueue = [g \in Guilds |-> Never]
    /\ now = StartTime
    /\ ops = << >>
    /\ used = [play |-> 0, press |-> 0, env |-> 0, call |-> 0]
    /\ mgr = NewManager
    /\ editCalls = NotCounting

Init == Start /\ faultsLeft = 0

Next ==
    \/ \E g \in UIGuilds, tr \in Tracks : PlayCommand(g, tr)
    \/ \E g \in UIGuilds, out \in Outcomes : NormalRefreshTimer(g, out)
    \/ \E g \in UIGuilds, out \in Outcomes : FastRefreshTimer(g, out)
    \/ \E g \in UIGuilds, out \in Outcomes : TrailingTimer(g, out)
    \/ \E g \in UIGuilds, out \in Outcomes : TrackStart(g, out)
    \/ \E g \in UIGuilds : TrackEnd(g)
    \/ \E g \in UIGuilds : QueueEndReset(g)
    \/ \E g \in UIGuilds : IntervalTick(g)
    \/ \E g \in UIGuilds, r \in BOOLEAN, out \in Outcomes : StopConfirmFire(g, r, out)
    \/ \E g \in UIGuilds, r \in BOOLEAN : PauseTimeoutFire(g, r)
    \/ \E g \in UIGuilds, m \in MsgIds, id \in ButtonKinds, out \in Outcomes,
          rnd \in RandomChoices : Press(g, m, id, out, rnd)
    \/ \E t \in BagToSet(tasks), out \in Outcomes, rnd \in RandomChoices : Resume(t, out, rnd)
    \/ Tick
    \/ \E m \in MsgIds : UserDeletesMessage(m)
    \/ \E m \in MsgIds : CollectorExpire(m)
    \/ \E m \in MsgIds : MessageAges(m)

\* The program with a transport that never fails ...
Spec == Init /\ [][Next]_vars

\* ... and with one that may fail up to MaxFaults times.
InitFaulty == Start /\ faultsLeft = MaxFaults

SpecFaulty == InitFaulty /\ [][Next]_vars

\* ------------------------------------------------------ scenario: cleanup
\* Sessions as a cleanup run may find them.
PlayingSession(g) ==
    [NewPlayer EXCEPT !.id = 1, !.voice = TRUE, !.current = 1, !.playing = TRUE,
                      !.nowPlayingMessage = g, !.nowPlayingCollector = g,
                      !.nowPlayingInterval = "active", !.lastUIUpdate = StartTime]
PausedSession(g) ==
    [PlayingSession(g) EXCEPT !.paused = TRUE, !.position = TickMs,
                              !.pausedPosition = TickMs, !.pauseTimeout = "pending"]
IdleSession == [NewPlayer EXCEPT !.id = 1, !.voice = TRUE]
\* The last track has ended and the queueEnd timer has not fired yet.
EndedSession(g) ==
    [PlayingSession(g) EXCEPT !.current = NoTrack, !.playing = FALSE, !.previous = << 1 >>]
NoVoiceSession == [NewPlayer EXCEPT !.id = 1]

HasUI(p) == p.nowPlayingMessage # NoMsg

\* The message of a session that has one: it shows the rendering of p.
MessageOf(g, p) ==
    [exists |-> TRUE, owner |-> g, embed |-> generateNowPlayingEmbed(p),
     components |-> createButtonRow(p), collecting |-> TRUE, old |-> FALSE]

TimersOf(p) ==
    [NoTimers EXCEPT !.interval = IF p.nowPlayingInterval = "active" THEN 1 ELSE 0,
                     !.pause = IF p.pauseTimeout = "pending" THEN 1 ELSE 0]

\* The state in which every guild g of live has the session ps[g].
Sessions(live, ps) ==
    /\ players = live
    /\ player = [g \in Guilds |-> IF g \in live THEN ps[g] ELSE NewPlayer]
    /\ messages = [m \in MsgIds |-> IF m \in live /\ HasUI(ps[m])
                                    THEN MessageOf(m, ps[m]) ELSE NoMessage]
    /\ nextMsg = NumGuilds + 1
    /\ tasks = EmptyBag
    /\ timers = [g \in Guilds |-> IF g \in live THEN TimersOf(ps[g]) ELSE NoTimers]
    /\ uiUpdateQueue = [g \in Guilds |-> Never]
    /\ now = StartTime
    /\ ops = << >>
    /\ used = [play |-> 0, press |-> 0, env |-> 0, call |-> 0]
    /\ mgr = NewManager

InitCleanup ==
    /\ \E live \in SUBSET Guilds :
         \E ps \in [Guilds -> {"playing", "paused", "idle", "novoice"}] :
            Sessions(live, [g \in Guilds |->
                               CASE ps[g] = "playing" -> PlayingSession(g)
                                 [] ps[g] = "paused" -> PausedSession(g)
                                 [] ps[g] = "idle" -> IdleSession
                                 [] OTHER -> NoVoiceSession])
    /\ faultsLeft = MaxFaults
    /\ editCalls = NotCounting

NextCleanup ==
    \/ NodeDown
    \/ \E out \in Outcomes : CleanupEnter(out)
    \/ \E out \in Outcomes : CleanupEdited(out)
    \/ \E threw \in BOOLEAN : CleanupDisconnected(threw)
    \/ \E threw \in BOOLEAN : CleanupDestroyed(threw)
    \/ CleanupFinally
    \/ CleanupFlagReset
    \/ \E g \in Guilds : Kicked(g)
    \/ \E g \in Guilds, tr \in Tracks : PlayCommand(g, tr)
    \/ \E t \in BagToSet(tasks), out \in Outcomes, rnd \in RandomChoices : Resume(t, out, rnd)
    \/ \E m \in MsgIds : UserDeletesMessage(m)

SpecCleanup == InitCleanup /\ [][NextCleanup]_vars

\* ------------------------------------------------- scenario: performStop
\* performStop called from a command, after the previous call has returned.
StopCall(g) ==
    /\ Count("call")
    /\ g \in players
    /\ \A t \in BagToSet(tasks) : t.g # g
    /\ Apply(g, performStop(World(g), Task(g, "stopCall", FALSE, NoMsg, KeepEmbed)), NoTasks)

InitStop ==
    /\ \E s \in {"playing", "paused", "idle"}, q \in 0..1 :
          LET base == CASE s = "playing" -> PlayingSession(1)
                        [] s = "paused" -> PausedSession(1)
                        [] OTHER -> IdleSession
              p == [base EXCEPT !.tracks = IF q = 1 THEN <<2>> ELSE << >>,
                                !.previous = IF q = 1 THEN <<2>> ELSE << >>]
          IN  /\ s = "idle" => q = 0
              /\ Sessions({1}, [g \in Guilds |-> p])
    /\ faultsLeft = MaxFaults
    /\ editCalls = NotCounting

NextStop ==
    \/ \E g \in UIGuilds : StopCall(g)
    \/ \E t \in BagToSet(tasks), out \in Outcomes, rnd \in RandomChoices : Resume(t, out, rnd)
    \/ \E m \in MsgIds : UserDeletesMessage(m)

SpecStop == InitStop /\ [][NextStop]_vars

\* ---------------------------------------------------- scenario: throttle
\* sendOrUpdateNowPlayingUI(player, channel) called by a command.
RefreshCall(g, out) ==
    /\ Count("call")
    /\ g \in players
    /\ MayFail(out)
    /\ Apply(g, sendOrUpdateNowPlayingUI(World(g), Task(g, "refresh", FALSE, NoMsg, KeepEmbed),
                                         out, NoRandom), NoTasks)

\* A paused session (its rendering does not change); its message shows that
\* rendering or still the one from before the pause.
InitThrottle ==
    /\ \E stale \in BOOLEAN, seen \in BOOLEAN, last \in {Never, StartTime} :
          LET p == [PausedSession(1) EXCEPT
                       !.lastUIUpdate = last,
                       !.lastEmbedData = IF seen /\ ~stale
                                         THEN generateNowPlayingEmbed(PausedSession(1))
                                         ELSE IF seen
                                         THEN generateNowPlayingEmbed(PlayingSession(1))
                                         ELSE NoEmbedData]
          IN  /\ players = {1}
              /\ player = [g \in Guilds |-> IF g = 1 THEN p ELSE NewPlayer]
              /\ messages = [m \in MsgIds |->
                                IF m # 1 THEN NoMessage
                                ELSE MessageOf(1, IF stale THEN PlayingSession(1) ELSE p)]
              /\ timers = [g \in Guilds |-> IF g = 1 THEN TimersOf(p) ELSE NoTimers]
    /\ nextMsg = NumGuilds + 1
    /\ tasks = EmptyBag
    /\ uiUpdateQueue = [g \in Guilds |-> Never]
    /\ now = StartTime
    /\ ops = << >>
    /\ used = [play |-> 0, press |-> 0, env |-> 0, call |-> 0]
    /\ mgr = NewManager
    /\ faultsLeft = MaxFaults
    /\ editCalls = Counting

\* cleanupUIResources(), run by setInterval every minute: clears every queued
\* trailing timer and empties the queue (the button cooldowns it also prunes
\* are not part of the state).
cleanupUIResources ==
    /\ Count("env")
    /\ uiUpdateQueue' = [g \in Guilds |-> Never]
    /\ ops' = << >>
    /\ UNCHANGED << players, player, messages, nextMsg, tasks, timers, now,
                    faultsLeft, mgr, editCalls >>

NextThrottle ==
    \/ \E g \in UIGuilds, out \in Outcomes : RefreshCall(g, out)
    \/ \E g \in UIGuilds, out \in Outcomes : TrailingTimer(g, out)
    \/ \E t \in BagToSet(tasks), out \in Outcomes, rnd \in RandomChoices : Resume(t, out, rnd)
    \/ Tick
    \/ \E m \in MsgIds : UserDeletesMessage(m)
    \/ cleanupUIResources
    \/ \E g \in UIGuilds : IntervalTick(g)

SpecThrottle == InitThrottle /\ [][NextThrottle]_vars

\* The event loop runs every due timer, every tick of the refresh interval and
\* every settled promise, and time passes; calls by commands and the user's deletions are not obliged to happen.
SpecThrottleLive ==
    /\ SpecThrottle
    /\ WF_vars(Tick)
    /\ WF_vars(\E g \in UIGuilds, out \in Outcomes : TrailingTimer(g, out))
    /\ WF_vars(\E g \in UIGuilds : IntervalTick(g))
    /\ WF_vars(\E t \in BagToSet(tasks), out \in Outcomes, rnd \in RandomChoices :
                  Resume(t, out, rnd))

\* ---------------------------------------------------- scenario: dispatch
\* An awaited player call of a button press (pause, resume, skip, play,
\* stopPlaying, setVolume) rejects: the exception leaves the control helper and
\* is caught and logged by the helper's or the collect handler's try/catch,
\* which ends the handling of the press.
PlayerCallRejects(t) ==
    /\ Own
    /\ t \in BagToSet(tasks)
    /\ t.kind \in ButtonKinds
    /\ t.pc \in {"pause", "resume", "skip", "play", "stopPlaying", "setVolume"}
    /\ faultsLeft > 0
    /\ LET w == [World(t.g) EXCEPT !.faults = @ - 1,
                                   !.ops = Append(@, Op("caught", t.src, KeepComponents,
                                                        t.kind))]
       IN  Apply(t.g, w, Done(t))

\* A session with its status message whose buttons are pressed while transport
\* calls and player calls may fail.
NextDispatch ==
    \/ \E g \in UIGuilds, m \in MsgIds, id \in ButtonKinds, out \in Outcomes,
          rnd \in RandomChoices : Press(g, m, id, out, rnd)
    \/ \E t \in BagToSet(tasks), out \in Outcomes, rnd \in RandomChoices : Resume(t, out, rnd)
    \/ \E t \in BagToSet(tasks) : PlayerCallRejects(t)
    \/ \E g \in UIGuilds, r \in BOOLEAN, out \in Outcomes : StopConfirmFire(g, r, out)
    \/ \E g \in UIGuilds, out \in Outcomes : FastRefreshTimer(g, out)
    \/ \E g \in UIGuilds, out \in Outcomes : TrackStart(g, out)

SpecDispatch == InitStop /\ [][NextDispatch]_vars

\* -------------------------------------------------------- scenario: info
\* The info command on a session with a current track.
InfoCommand(g, out) ==
    /\ Count("call")
    /\ g \in players
    /\ player[g].current # NoTrack
    /\ MayFail(out)
    /\ Apply(g, infoExecute(World(g), Task(g, "info", FALSE, NoMsg, KeepEmbed), out, NoRandom),
             NoTasks)

\* A session with its status message on which the info command is given while
\* tracks start and end, the queue-end reset runs and time passes.
NextInfo ==
    \/ \E g \in UIGuilds, out \in Outcomes : InfoCommand(g, out)
    \/ \E t \in BagToSet(tasks), out \in Outcomes, rnd \in RandomChoices : Resume(t, out, rnd)
    \/ \E g \in UIGuilds, out \in Outcomes : TrailingTimer(g, out)
    \/ \E g \in UIGuilds, out \in Outcomes : TrackStart(g, out)
    \/ \E g \in UIGuilds : TrackEnd(g)
    \/ \E g \in UIGuilds : QueueEndReset(g)
    \/ Tick

SpecInfo == InitStop /\ [][NextInfo]_vars

\* ----------------------------------------------- scenario: manual refresh
\* A playing or paused session with its status message (message 1), refreshed
\* just now or never, over a transport that does not fail.
InitManual ==
    /\ \E paused \in BOOLEAN, last \in {Never, StartTime} :
          LET base == IF paused THEN PausedSession(1) ELSE PlayingSession(1)
              p == [base EXCEPT !.lastUIUpdate = last]
          IN  /\ players = {1}
              /\ player = [g \in Guilds |-> IF g = 1 THEN p ELSE NewPlayer]
              /\ messages = [m \in MsgIds |-> IF m = 1 THEN MessageOf(1, p) ELSE NoMessage]
              /\ timers = [g \in Guilds |-> IF g = 1 THEN TimersOf(p) ELSE NoTimers]
    /\ nextMsg = 2
    /\ tasks = EmptyBag
    /\ uiUpdateQueue = [g \in Guilds |-> Never]
    /\ now = StartTime
    /\ ops = << >>
    /\ used = [play |-> 0, press |-> 0, env |-> 0, call |-> 0]
    /\ mgr = NewManager
    /\ faultsLeft = 0
    /\ editCalls = NotCounting

\* The info command and the timers of the module and of the session; the
\* current track plays on.
NextManual ==
    \/ \E g \in UIGuilds, out \in Outcomes : InfoCommand(g, out)
    \/ \E t \in BagToSet(tasks), out \in Outcomes, rnd \in RandomChoices : Resume(t, out, rnd)
    \/ \E g \in UIGuilds, out \in Outcomes : TrailingTimer(g, out)
    \/ \E g \in UIGuilds : IntervalTick(g)
    \/ cleanupUIResources
    \/ Tick

SpecManual == InitManual /\ [][NextManual]_vars

\* The event loop runs every due timer and every settled promise, and time
\* passes; commands are not obliged to happen.
SpecManualLive ==
    /\ SpecManual
    /\ WF_vars(Tick)
    /\ WF_vars(\E g \in UIGuilds, out \in Outcomes : TrailingTimer(g, out))
    /\ WF_vars(\E g \in UIGuilds : IntervalTick(g))
    /\ WF_vars(\E t \in BagToSet(tasks), out \in Outcomes, rnd \in RandomChoices :
                  Resume(t, out, rnd))

\* ------------------------------------------------- scenario: queue jump
\* The queue command with an argument.
QueueCommand(g, arg) ==
    /\ Count("call")
    /\ g \in players
    /\ Apply(g, queueExecute(World(g), Task(g, "queue", FALSE, NoMsg, KeepEmbed), arg), NoTasks)

\* A session without a status message that plays track 1, with any history and
\* any upcoming queue of up to MaxQueue tracks.
InitJump ==
    /\ \E h \in SeqsUpTo(Tracks, MaxQueue), q \in SeqsUpTo(Tracks, MaxQueue) :
          Sessions({1}, [g \in Guilds |->
                            [NewPlayer EXCEPT !.id = 1, !.voice = TRUE, !.current = 1,
                                              !.playing = TRUE, !.previous = h,
                                              !.tracks = q]])
    /\ faultsLeft = 0
    /\ editCalls = NotCounting

NextJump ==
    \/ \E g \in UIGuilds, arg \in JumpTargets : QueueCommand(g, arg)
    \/ \E t \in BagToSet(tasks), out \in Outcomes, rnd \in RandomChoices : Resume(t, out, rnd)

SpecJump == InitJump /\ [][NextJump]_vars

\* --------------------------------------------------- scenario: reconnect
\* The node goes down and comes back while no session exists; the signals are
\* those of a lost node and of a health check that timed out.
\* startHealthMonitoring(): one setInterval, its handle kept in
\* healthCheckInterval; the handle of an earlier interval is overwritten.
startHealthMonitoring ==
    /\ Count("call")
    /\ mgr' = [mgr EXCEPT !.healthCheckInterval = "active", !.healthTimers = @ + 1]
    /\ ops' = << Op("startHealthMonitoring", NoMsg, KeepComponents, "reconnect") >>
    /\ UNCHANGED << players, player, messages, nextMsg, tasks, timers, uiUpdateQueue,
                    now, faultsLeft, editCalls >>

\* stop(): clears the interval healthCheckInterval denotes, if any.
reconnectStop ==
    /\ Count("call")
    /\ mgr' = IF mgr.healthCheckInterval = "active"
              THEN [mgr EXCEPT !.healthCheckInterval = "null", !.healthTimers = @ - 1]
              ELSE mgr
    /\ ops' = << Op("stop", NoMsg, KeepComponents, "reconnect") >>
    /\ UNCHANGED << players, player, messages, nextMsg, tasks, timers, uiUpdateQueue,
                    now, faultsLeft, editCalls >>

\* The health-check interval fires and finds the node disconnected, or its
\* stats fetch times out: the same path as a node-down event.
HealthCheckFails ==
    /\ mgr.healthTimers > 0
    /\ NodeDown

\* --------------------------------------------- scenario: the progress bar
\* buildProgressBar(current, total) with the default barLength, for every
\* total from -1 to MaxBarTotal and every position of the track.
ProgressBarCall(current, total) ==
    /\ current <= total \/ total <= 0
    /\ ops' = << [op |-> "buildProgressBar", position |-> current, total |-> total,
                  barLength |-> BAR_LENGTH,
                  result |-> buildProgressBar(current, total, BAR_LENGTH)] >>
    /\ UNCHANGED << players, player, messages, nextMsg, tasks, timers, uiUpdateQueue,
                    now, used, mgr, faultsLeft, editCalls >>

InitBar ==
    /\ Sessions({}, [g \in Guilds |-> NewPlayer])
    /\ faultsLeft = 0
    /\ editCalls = NotCounting

NextBar ==
    \E total \in -1..MaxBarTotal, current \in 0..MaxBarTotal : ProgressBarCall(current, total)

SpecBar == InitBar /\ [][NextBar]_vars

\* ------------------- scenario: the cleanup manager and the node-down cleanup
\* mgr.intervals and mgr.timeouts are the tables of the CleanupManager,
\* mgr.sweepTimers the interval timers of its start() calls that are running.
SweepNames == {"messageCleanup", "playerCleanup"}

\* start(): two setInterval calls, each stored under its name.
cleanupStart ==
    /\ Count("call")
    /\ mgr' = [mgr EXCEPT !.intervals = @ \cup SweepNames,
                          !.sweepTimers = @ + Cardinality(SweepNames)]
    /\ ops' = << Op("cleanupStart", NoMsg, KeepComponents, "cleanupManager") >>
    /\ UNCHANGED << players, player, messages, nextMsg, tasks, timers, uiUpdateQueue,
                    now, faultsLeft, editCalls >>

\* stop(): clearInterval for every value of the table, then the table is
\* emptied; the same for the timeouts, of which none is ever stored.
cleanupStop ==
    /\ Count("call")
    /\ mgr' = [mgr EXCEPT !.intervals = {}, !.timeouts = {},
                          !.sweepTimers = @ - Cardinality(mgr.intervals)]
    /\ ops' = << Op("cleanupStop", NoMsg, KeepComponents, "cleanupManager") >>
    /\ UNCHANGED << players, player, messages, nextMsg, tasks, timers, uiUpdateQueue,
                    now, faultsLeft, editCalls >>

\* The bot is in the guild's voice channel (voiceChannel.members has it).
Attached(g) == player[g].voice

\* The orphaned players in the order the loop meets them.
Orphans == SeqOf({g \in players : ~Attached(g)})
\* The position of the first entry whose player.destroy() throws, or one past
\* the last entry.
FirstThrow(fails) ==
    IF \E i \in 1..Len(Orphans) : Orphans[i] \in fails
    THEN CHOOSE i \in 1..Len(Orphans) :
            Orphans[i] \in fails /\ \A j \in 1..(i - 1) : Orphans[j] \notin fails
    ELSE Len(Orphans) + 1

\* cleanupDisconnectedPlayers(): one synchronous pass over the players, run by
\* the playerCleanup interval.  player.destroy() is neither awaited nor inside
\* a try.  fails: the players whose destroy() throws at the call: the loop ends
\* there and the error leaves the sweep.  rejects: the players whose destroy()
\* returns a promise that rejects: nothing in the sweep handles it.
cleanupDisconnectedPlayers(fails, rejects) ==
    /\ Count("env")
    /\ mgr.sweepTimers > 0
    /\ fails \subseteq {g \in players : ~Attached(g)}
    /\ rejects \subseteq {Orphans[i] : i \in 1..(FirstThrow(fails) - 1)}
    /\ players' = players \ {Orphans[i] : i \in 1..(FirstThrow(fails) - 1)}
    /\ ops' = << Op("sweep", NoMsg, KeepComponents, "cleanupManager") >>
               \o [i \in 1..Cardinality(rejects) |->
                      Op("unhandledRejection", NoMsg, KeepComponents, "cleanupManager")]
               \o (IF fails = {} THEN << >>
                   ELSE << Op("throw", NoMsg, KeepComponents, "cleanupManager") >>)
    /\ UNCHANGED << player, messages, nextMsg, tasks, timers, uiUpdateQueue,
                    now, faultsLeft, editCalls, mgr >>

\* The bot loses its voice channel without the kick handler acting on it.
VoiceLost(g) ==
    /\ Count("env")
    /\ g \in players /\ player[g].voice
    /\ player' = [player EXCEPT ![g].voice = FALSE]
    /\ ops' = << >>
    /\ UNCHANGED << players, messages, nextMsg, tasks, timers, uiUpdateQueue,
                    now, faultsLeft, editCalls, mgr >>

InitSweep ==
    /\ \E live \in SUBSET Guilds, started \in BOOLEAN :
         \E ps \in [Guilds -> {"playing", "ended", "idle", "novoice"}] :
            /\ players = live
            /\ player = [g \in Guilds |->
                            IF g \notin live THEN NewPlayer
                            ELSE CASE ps[g] = "playing" -> PlayingSession(g)
                                   [] ps[g] = "ended" -> EndedSession(g)
                                   [] ps[g] = "idle" -> IdleSession
                                   [] OTHER -> NoVoiceSession]
            /\ messages = [m \in MsgIds |-> IF m \in live /\ HasUI(player[m])
                                             THEN MessageOf(m, PlayingSession(m))
                                             ELSE NoMessage]
            /\ timers = [g \in Guilds |->
                            IF g \notin live THEN NoTimers
                            ELSE [TimersOf(player[g]) EXCEPT
                                     !.queueEndReset = IF ps[g] = "ended" THEN 1 ELSE 0]]
            /\ mgr = IF started
                     THEN [NewManager EXCEPT !.intervals = SweepNames,
                                             !.sweepTimers = Cardinality(SweepNames)]
                     ELSE NewManager
    /\ nextMsg = NumGuilds + 1
    /\ tasks = EmptyBag
    /\ uiUpdateQueue = [g \in Guilds |-> Never]
    /\ now = StartTime
    /\ ops = << >>
    /\ used = [play |-> 0, press |-> 0, env |-> 0, call |-> 0]
    /\ faultsLeft = MaxFaults
    /\ editCalls = NotCounting

NextSweep ==
    \/ cleanupStart
    \/ cleanupStop
    \/ \E fails \in SUBSET Guilds, rejects \in SUBSET Guilds :
          cleanupDisconnectedPlayers(fails, rejects)
    \/ \E g \in Guilds : VoiceLost(g)
    \/ \E g \in Guilds : QueueEndReset(g)
    \/ NodeDown
    \/ \E out \in Outcomes : CleanupEnter(out)
    \/ \E out \in Outcomes : CleanupEdited(out)
    \/ \E threw \in BOOLEAN : CleanupDisconnected(threw)
    \/ \E threw \in BOOLEAN : CleanupDestroyed(threw)
    \/ CleanupFinally
    \/ CleanupFlagReset

SpecSweep == InitSweep /\ [][NextSweep]_vars

\* The manager after a node failure has been handled once: the node is down
\* and the first reconnect timer is pending.
WaitingManager ==
    [NewManager EXCEPT !.connected = FALSE, !.attempts = 1, !.reconnectTimers = 1,
                       !.scheduled = << reconnectDelay >>, !.handled = 1,
                       !.completed = TRUE, !.pos = 1]

InitReconnect ==
    /\ players = {}
    /\ player = [g \in Guilds |-> NewPlayer]
    /\ messages = [m \in MsgIds |-> NoMessage]
    /\ nextMsg = NumGuilds + 1
    /\ tasks = EmptyBag
    /\ timers = [g \in Guilds |-> NoTimers]
    /\ uiUpdateQueue = [g \in Guilds |-> Never]
    /\ now = StartTime
    /\ ops = << >>
    /\ used = [play |-> 0, press |-> 0, env |-> 0, call |-> 0]
    /\ mgr \in {NewManager, WaitingManager}
    /\ faultsLeft = 0
    /\ editCalls = NotCounting

NextReconnect ==
    \/ NodeDown
    \/ CleanupFinally
    \/ CleanupFlagReset
    \/ \E ok \in BOOLEAN : ReconnectFire(ok)
    \/ NodeLost
    \/ NodeConnect
    \/ startHealthMonitoring
    \/ reconnectStop
    \/ HealthCheckFails

SpecReconnect == InitReconnect /\ [][NextReconnect]_vars

\* ---------------------------------------------------- scenario: controls
\* Buttons pressed on a session that plays or pauses track 1, with any
\* upcoming queue and history.
InitControls ==
    /\ \E paused \in BOOLEAN, q \in SeqsUpTo(Tracks, MaxQueue),
          h \in SeqsUpTo(Tracks, MaxHistory) :
          LET base == IF paused THEN PausedSession(1) ELSE PlayingSession(1)
              p == [base EXCEPT !.tracks = q, !.previous = h]
          IN  Sessions({1}, [g \in Guilds |-> p])
    /\ faultsLeft = 0
    /\ editCalls = NotCounting

NextControls ==
    \/ \E g \in UIGuilds, m \in MsgIds, id \in ButtonKinds, out \in Outcomes,
          rnd \in RandomChoices : Press(g, m, id, out, rnd)
    \/ \E t \in BagToSet(tasks), out \in Outcomes, rnd \in RandomChoices : Resume(t, out, rnd)
    \/ \E g \in UIGuilds, out \in Outcomes : FastRefreshTimer(g, out)
    \/ \E g \in UIGuilds, out \in Outcomes : TrackStart(g, out)

SpecControls == InitControls /\ [][NextControls]_vars

\* ------------------------------------------------------- scenario: pause
\* pause.execute: the pause command pauses a session that is not paused and
\* its alias resume resumes a paused one; anything else is ignored.
PauseCommand(g, commandUsed) ==
    /\ Count("call")
    /\ g \in players
    /\ LET w == World(g)
           t == Task(g, "pauseCommand", FALSE, NoMsg, KeepEmbed)
       IN  Apply(g, IF \/ commandUsed = "pause" /\ ~w.p.paused
                       \/ commandUsed = "resume" /\ w.p.paused
                    THEN togglePlayPause(w, t) ELSE w, NoTasks)

\* A playing or paused session that is paused and resumed by the command and
\* by the play/pause button of its status message.
NextPause ==
    \/ \E g \in UIGuilds, commandUsed \in {"pause", "resume"} : PauseCommand(g, commandUsed)
    \/ \E g \in UIGuilds, m \in MsgIds, out \in Outcomes : Press(g, m, "playpause", out, NoRandom)
    \/ \E t \in BagToSet(tasks), out \in Outcomes, rnd \in RandomChoices : Resume(t, out, rnd)
    \/ \E g \in UIGuilds, out \in Outcomes : FastRefreshTimer(g, out)
    \/ \E g \in UIGuilds, r \in BOOLEAN : PauseTimeoutFire(g, r)

SpecPause == InitControls /\ [][NextPause]_vars

\* ---------------------------------------------------- scenario: auto-stop
\* The play/pause button pressed on a session that is not paused.
PressPause(g, m, out) ==
    /\ ~player[g].paused
    /\ Press(g, m, "playpause", out, NoRandom)

\* A session whose pauses are never ended by togglePlayPause: the play/pause
\* button only pauses, and the other buttons (skip, previous, stop and its
\* confirmation, shuffle) are pressed at any time.
NextAutoStop ==
    \/ \E g \in UIGuilds, m \in MsgIds, out \in Outcomes : PressPause(g, m, out)
    \/ \E g \in UIGuilds, m \in MsgIds, id \in ButtonKinds \ {"playpause"}, out \in Outcomes,
          rnd \in RandomChoices : Press(g, m, id, out, rnd)
    \/ \E t \in BagToSet(tasks), out \in Outcomes, rnd \in RandomChoices : Resume(t, out, rnd)
    \/ \E g \in UIGuilds, out \in Outcomes : FastRefreshTimer(g, out)
    \/ \E g \in UIGuilds, out \in Outcomes : TrackStart(g, out)
    \/ \E g \in UIGuilds, r \in BOOLEAN, out \in Outcomes : StopConfirmFire(g, r, out)
    \/ \E g \in UIGuilds, r \in BOOLEAN : PauseTimeoutFire(g, r)

SpecAutoStop == InitControls /\ [][NextAutoStop]_vars

\* ------------------------------------------- scenario: the transport wrappers
\* safeEdit and safeDelete called on the session's message handle, one
\* invocation after the other, over a transport that may answer 429 or fail
\* twice in a row, while the user may delete the message at any moment.
WrapperKinds == {"safeEdit", "safeDelete"}

SafeEditCall(g, changed, out) ==
    /\ Count("call")
    /\ g \in players
    /\ \A t \in BagToSet(tasks) : t.g # g
    /\ MayFail(out)
    /\ LET w == World(g)
           m == w.p.nowPlayingMessage
           emb == IF changed THEN generateStoppedEmbed ELSE generateNowPlayingEmbed(w.p)
           r == safeEdit(w, m, emb, NoComponents, "safeEdit", out)
       IN  Apply(g, IF r.res \in {"noop", "same"}
                    THEN WrapperReturn(r.w, "safeEdit", "resolved", r.res, FALSE)
                    ELSE AwaitEdit(r, [Task(g, "safeEdit", FALSE, NoMsg, emb) EXCEPT !.msg = m],
                                   emb, NoComponents),
                 NoTasks)

SafeDeleteCall(g, out) ==
    /\ Count("call")
    /\ g \in players
    /\ \A t \in BagToSet(tasks) : t.g # g
    /\ MayFail(out)
    /\ LET w == World(g)
           m == w.p.nowPlayingMessage
           r == safeDelete(w, m, "safeDelete", out)
       IN  Apply(g, IF r.res = "noop"
                    THEN WrapperReturn(r.w, "safeDelete", "resolved", r.res, FALSE)
                    ELSE Suspend(r.w, [Task(g, "safeDelete", FALSE, NoMsg, KeepEmbed)
                                          EXCEPT !.pc = "delete", !.msg = m, !.res = r.res]),
                 NoTasks)

InitWrappers ==
    /\ \E handle \in BOOLEAN :
          Sessions({1}, [g \in Guilds |->
                           IF handle THEN PlayingSession(1)
                           ELSE [PlayingSession(1) EXCEPT !.nowPlayingMessage = NoMsg]])
    /\ faultsLeft = MaxFaults + 1
    /\ editCalls = NotCounting

NextWrappers ==
    \/ \E g \in UIGuilds, changed \in BOOLEAN, out \in Outcomes : SafeEditCall(g, changed, out)
    \/ \E g \in UIGuilds, out \in Outcomes : SafeDeleteCall(g, out)
    \/ \E t \in BagToSet(tasks), out \in Outcomes, rnd \in RandomChoices : Resume(t, out, rnd)
    \/ \E m \in MsgIds : UserDeletesMessage(m)

SpecWrappers == InitWrappers /\ [][NextWrappers]_vars

\* ======================================================== properties: C1
LiveMessages(g) ==
    {m \in MsgIds : messages[m].exists /\ messages[m].owner = g
                    /\ messages[m].embed.kind = "nowplaying"}

\* C1: at any time at most one status message created for a session is live
\* (displayed and showing the Now-Playing state), whatever the interleaving
\* of the refresh / ensureNowPlayingMessage invocations.
C1_AtMostOneLiveMessage ==
    \A g \in Guilds : Cardinality(LiveMessages(g)) <= 1

\* ======================================================== properties: C3
\* The suspended refresh t goes on in this step.
Resumed(t) == CopiesIn(t, tasks') < CopiesIn(t, tasks)

RefreshEditNotFound(t) ==
    t.kind \in RefreshKinds /\ t.pc = "edit" /\ t.res = "notfound"

\* C3: when the edit of the stored status message fails with not-found during
\* a refresh, the refresh drops the handle of the vanished message and its
\* collector (so that the next refresh sends a new message).
C3_NotFoundClearsHandle ==
    [][\A t \in BagToSet(tasks) :
          RefreshEditNotFound(t) /\ Resumed(t)
              => /\ player'[t.g].nowPlayingMessage # t.msg
                 /\ player'[t.g].nowPlayingCollector # t.msg]_vars

\* ======================================================== properties: C6
HasEdit(opsDone) == \E i \in DOMAIN opsDone : opsDone[i].op = "edit"

LiveHandle(g) ==
    /\ player[g].nowPlayingMessage # NoMsg
    /\ messages[player[g].nowPlayingMessage].exists
    /\ ~messages[player[g].nowPlayingMessage].old

InsideThrottleWindow(g) ==
    /\ player[g].lastUIUpdate # Never
    /\ now - player[g].lastUIUpdate < MIN_UI_UPDATE_INTERVAL

\* C6: a fast refresh issued inside the throttle window of a prior refresh, for
\* a session with a current track and a live message, makes a transport edit.
C6_FastRefreshEdits ==
    [][\A g \in UIGuilds :
          /\ player[g].current # NoTrack
          /\ LiveHandle(g)
          /\ InsideThrottleWindow(g)
          /\ FastRefreshTimer(g, "ok")
          => HasEdit(ops')]_vars

\* ======================================================== properties: C7
ConfirmHandlers == {"stop", "confirmStop", "cancelStop", "restore"}

\* Something is still going to take the confirm/cancel row of guild g away:
\* the 10 s timer is pending, or a handler of the confirmation is running.
ConfirmationOpen(g) ==
    \/ timers[g].stopConfirm > 0
    \/ \E t \in BagToSet(tasks) : t.g = g /\ t.kind \in ConfirmHandlers

\* C7: the status message never stays on the confirm/cancel row once the 10 s
\* window has expired: when its timer has fired and restoreOriginalUI is done,
\* the message shows the five-control row again.
C7_ConfirmRowRestored ==
    \A g \in Guilds :
        LET m == player[g].nowPlayingMessage
        IN  (m # NoMsg /\ messages[m].exists /\ messages[m].components = confirmRow)
                => ConfirmationOpen(g)

\* ======================================================== properties: C8
ConfirmationPending(g) ==
    /\ player[g].stopConfirmationTimeout = "pending"
    /\ player[g].nowPlayingMessage # NoMsg
    /\ messages[player[g].nowPlayingMessage].components = confirmRow

RefreshPaths == {"refresh", "tick"}

ReplacesComponents(o) ==
    o.op = "edit" /\ o.by \in RefreshPaths /\ o.comps # KeepComponents

\* C8: while a stop confirmation is pending, no refresh path (the periodic
\* tick, sendOrUpdateNowPlayingUI) issues an edit that carries components.
C8_RefreshKeepsConfirmRow ==
    [][\A g \in UIGuilds :
          ConfirmationPending(g)
              => \A i \in DOMAIN ops' : ~ReplacesComponents(ops'[i])]_vars

\* ======================================================== properties: C9
Quiet(g) == \A t \in BagToSet(tasks) : t.g # g

Displayed(g) == {m \in MsgIds : messages[m].exists /\ messages[m].owner = g}

ShowsStopped(m) ==
    messages[m].embed.kind = "stopped" /\ messages[m].components = NoComponents

\* C9: in every state in which no handler of the session is suspended, the
\* current track is null iff neither playing nor paused, and when it is null
\* the queue and the history are empty and a displayed status message shows
\* the stopped variant without controls.
C9_StoppedState ==
    \A g \in Guilds :
        Quiet(g) =>
            /\ (player[g].current = NoTrack) <=> (~player[g].playing /\ ~player[g].paused)
            /\ player[g].current = NoTrack =>
                  /\ player[g].tracks = << >>
                  /\ player[g].previous = << >>
                  /\ \A m \in Displayed(g) : ShowsStopped(m)

\* ======================================================= properties: C10
\* C10: once no handler of the session is suspended, _pausedPosition is
\* defined only if the session is paused.
C10_PausedPositionOnlyWhilePaused ==
    \A g \in Guilds :
        Quiet(g) => (player[g].pausedPosition # -1 => player[g].paused)

\* ======================================================== properties: C2
\* C2: once _emergencyCleanupAllPlayers has completed, the map holds none of
\* the sessions of its snapshot, whichever steps of the cleanup have thrown.
C2_SnapshotRemoved ==
    mgr.completed =>
        \A i \in 1..Len(mgr.snapshot) :
            ~(mgr.snapshot[i].g \in players
              /\ player[mgr.snapshot[i].g].id = mgr.snapshot[i].id)

C2_Witness ==
    /\ mgr.completed
    /\ Len(mgr.snapshot) = NumGuilds
    /\ mgr.threw > 0

\* ======================================================== properties: C4
HasThrow(opsDone) == \E i \in DOMAIN opsDone : opsDone[i].op = "throw"

C5_AtMostOneEdit == editCalls.calls + editCalls.retries <= 1

\* C5 (amended): they make at most one safeEdit that reaches the transport;
\* it calls message.edit once, and once more only after a rate limit.
C5_AtMostOneSafeEdit ==
    /\ editCalls.calls <= 1
    /\ editCalls.retries <= editCalls.calls

C5_Witness ==
    /\ used.call = 2
    /\ editCalls.calls = 1
    /\ uiUpdateQueue[1] # Never

\* ======================================================= properties: C11
\* C11: when a teardown of a session (here performStop) has completed, none of
\* the session's stop-confirmation timer, pause timer and refresh interval is
\* still pending.
C11_TeardownCancelsTimers ==
    \A g \in UIGuilds :
        (used.call >= 1 /\ Quiet(g)) =>
            /\ timers[g].stopConfirm = 0
            /\ timers[g].pause = 0
            /\ timers[g].interval = 0

\* ======================================================= properties: C12
\* C12: at every moment at most one periodic refresh interval is active per
\* session, and it is the one player.nowPlayingInterval refers to: the paths
\* that install an interval clear the active one first.
C12_OneInterval ==
    \A g \in Guilds :
        /\ timers[g].interval <= 1
        /\ timers[g].interval = 1 <=> player[g].nowPlayingInterval = "active"

HasClearInterval(opsDone) ==
    \E i \in DOMAIN opsDone : opsDone[i].op = "clearInterval"

\* A step has cleared the active interval and installed a new one.
C12_Witness ==
    /\ HasClearInterval(ops)
    /\ timers[1].interval = 1
    /\ player[1].nowPlayingInterval = "active"

\* ======================================================= properties: C13
HasSkipDuplicate(opsDone) ==
    \E i \in DOMAIN opsDone : opsDone[i].op = "skipDuplicate"

\* C13: at most one execution of _emergencyCleanupAllPlayers is in progress at
\* any time: a node-down signal that arrives during a run starts no second
\* run, and the guard is set for as long as the run lasts.
C13_OneCleanupRun ==
    /\ mgr.runs <= 1
    /\ mgr.pc # "idle" => mgr.isCleaningUp

\* A signal has just been dropped while the run was cleaning a session.
C13_Witness ==
    /\ HasSkipDuplicate(ops)
    /\ mgr.pc \in {"edit", "disconnect", "voice", "destroy"}
    /\ mgr.runs = 1

\* ======================================================= properties: C14
\* The delays of the attempts allowed between two successful connects.
Backoff == [a \in 1..maxReconnectAttempts |-> reconnectDelay * Pow2(a - 1)]

\* C14: between two successful connects at most 5 attempts are scheduled for
\* the node, with the delays 5 s, 10 s, 20 s, 40 s, 80 s in that order.
C14_BackoffSequence ==
    /\ Len(mgr.scheduled) <= maxReconnectAttempts
    /\ \A i \in DOMAIN mgr.scheduled : mgr.scheduled[i] = Backoff[i]

\* ======================================================= properties: C15
\* handlePreviousButton has run in this step and found an entry in the history:
\* its invocation is now suspended at the await of player.play.
PreviousRan(g) ==
    \E t \in BagToSet(tasks') :
        /\ t.g = g /\ t.kind = "previous" /\ t.pc = "play"
        /\ CopiesIn(t, tasks') > CopiesIn(t, tasks)

CountIn(s, x) == Cardinality({i \in DOMAIN s : s[i] = x})

IsPermutation(a, b) ==
    /\ Len(a) = Len(b)
    /\ \A x \in Tracks : CountIn(a, x) = CountIn(b, x)

HasShuffle(opsDone) == \E i \in DOMAIN opsDone : opsDone[i].op = "shuffle"

\* C16: the shuffle action leaves a permutation of the upcoming queue (same
\* length, same multiset) and changes neither the current track nor the
\* history, for every queue length from 0 on.
C16_Shuffle ==
    [][\A g \in UIGuilds :
          HasShuffle(ops') =>
              /\ IsPermutation(player'[g].tracks, player[g].tracks)
              /\ player'[g].current = player[g].current
              /\ player'[g].previous = player[g].previous]_vars

\* The shuffle has just run on a queue of two different tracks.
C16_Witness ==
    /\ HasShuffle(ops)
    /\ Len(player[1].tracks) = MaxQueue
    /\ player[1].tracks[1] # player[1].tracks[2]


\* ------------------------------------------------------------ C17 and C18
IsTransport(o) == o.op \in {"edit", "delete"}
HasOp(s, name) == \E i \in 1..Len(s) : s[i].op = name
TransportCalls(s) == Cardinality({i \in 1..Len(s) : IsTransport(s[i])})
WrapperTask(t) == t.kind \in WrapperKinds /\ t.pc \in {"edit", "delete"}

\* C17: when the transport call of safeEdit or safeDelete has failed with
\* "unknown message" (10008), on the first call as well as on the repeat after
\* a rate limit, the wrapper resolves with undefined and does not throw.
C17_NotFoundResolves ==
    [][\A t \in BagToSet(tasks) :
          WrapperTask(t) /\ t.res = "notfound" /\ Resumed(t)
          => /\ HasOp(ops', "returnsUndefined")
             /\ ~HasOp(ops', "throws")
             /\ ~HasOp(ops', "returnsMessage")
             /\ TransportCalls(ops') = 0
             /\ \A u \in BagToSet(tasks') : u.g # t.g]_vars

\* safeEdit has resolved with undefined on the repeat of a rate-limited call
\* whose message the user had deleted meanwhile.
C17_Witness ==
    /\ used.env = 1
    /\ \E i \in 1..Len(ops) : ops[i].op = "returnsUndefined" /\ ops[i].retry
                              /\ ops[i].by = "safeEdit"


\* C18: a wrapper whose transport call was rate limited repeats the call
\* exactly once; the repeat is never repeated, so an invocation makes at most
\* two transport calls; a repeat that succeeds is the wrapper's result, and a
\* repeat that fails (rate limit or other error) is thrown to the caller.
C18_RetryOnce ==
    [][\A t \in BagToSet(tasks) :
          WrapperTask(t) /\ Resumed(t)
          => /\ (t.res = "ratelimited" /\ ~t.retried)
                => /\ TransportCalls(ops') = 1
                   /\ \E i \in 1..Len(ops') :
                         /\ ops'[i].op = (IF t.kind = "safeEdit" THEN "edit" ELSE "delete")
                         /\ ops'[i].msg = t.msg
                         /\ ops'[i].retry
                   /\ ~HasOp(ops', "throws")
                   /\ \E u \in BagToSet(tasks') :
                         u.g = t.g /\ u.kind = t.kind /\ u.msg = t.msg /\ u.retried
             /\ t.retried
                => /\ TransportCalls(ops') = 0
                   /\ \A u \in BagToSet(tasks') : u.g # t.g
                   /\ t.res = "ok"
                      => /\ ~HasOp(ops', "throws")
                         /\ HasOp(ops', IF t.kind = "safeEdit" THEN "returnsMessage"
                                        ELSE "returnsUndefined")
                         /\ (t.kind = "safeEdit"
                             => messages'[t.msg].embed = t.emb \/ ~messages'[t.msg].exists)
                   /\ t.res \in {"ratelimited", "error"}
                      => HasOp(ops', "throws") /\ Len(ops') = 1]_vars

\* A repeat was answered with a rate limit again and the wrapper has thrown.
C18_Witness ==
    /\ faultsLeft = 0
    /\ \E i \in 1..Len(ops) : ops[i].op = "throws" /\ ops[i].retry
                              /\ ops[i].by \in WrapperKinds

\* A repeat has succeeded and safeEdit has returned the edited message.
C18_WitnessSuccess ==
    \E i \in 1..Len(ops) : ops[i].op = "returnsMessage" /\ ops[i].retry


\* -------------------------------------------------------------------- C19
NumSends(s) == Cardinality({i \in 1..Len(s) : s[i].op = "send"})
Spawned(t) == CopiesIn(t, tasks') > CopiesIn(t, tasks)

\* C19: an ensureNowPlayingMessage that goes on to create a message (current
\* track, no handle) issues exactly one channel.send; when the send has
\* returned, the sent message is the session's handle and the session's
\* collector is the one bound to that message, and nothing is sent again.
\* With no current track it sends nothing, stores no handle and returns null.
C19_EnsureSendsOnce ==
    [][/\ \A t \in BagToSet(tasks') :
             t.pc = "ens_send" /\ Spawned(t)
             => /\ NumSends(ops') = 1
                /\ player[t.g].current # NoTrack \/ player'[t.g].current # NoTrack
                /\ \E i \in 1..Len(ops') : ops'[i].op = "send" /\ ops'[i].msg = t.msg
                /\ ~messages[t.msg].exists
                /\ messages'[t.msg].owner = t.g
       /\ \A t \in BagToSet(tasks) :
             t.pc = "ens_send" /\ Resumed(t) /\ t.msg # NoMsg
             => /\ NumSends(ops') = 0
                /\ player'[t.g].nowPlayingMessage = t.msg
                /\ player'[t.g].nowPlayingCollector = t.msg
                /\ messages'[t.msg].collecting = messages'[t.msg].exists
       /\ HasOp(ops', "returnsNull")
          => /\ NumSends(ops') = 0
             /\ nextMsg' = nextMsg
             /\ \E g \in UIGuilds : /\ player'[g].current = NoTrack
                                    /\ player'[g].nowPlayingMessage = NoMsg]_vars

\* The first message of a session has been sent, stored and given a collector.
C19_Witness ==
    /\ used.play = 1
    /\ tasks = EmptyBag
    /\ nextMsg = 2
    /\ player[1].nowPlayingMessage = 1
    /\ player[1].nowPlayingCollector = 1
    /\ messages[1].collecting

\* An ensureNowPlayingMessage found no current track and returned null.
C19_WitnessNoTrack == HasOp(ops, "returnsNull")


\* -------------------------------------------------------------------- C20
ActiveCollectors(g) == {m \in MsgIds : messages[m].collecting /\ messages[m].owner = g}

\* C20: a session has at most one active interaction collector, and an active
\* collector is the one the session's collector reference denotes and is
\* bound to the message the session's handle denotes.
C20_OneCollectorOnHandle ==
    \A g \in Guilds :
       /\ Cardinality(ActiveCollectors(g)) <= 1
       /\ \A m \in ActiveCollectors(g) : /\ player[g].nowPlayingCollector = m
                                         /\ player[g].nowPlayingMessage = m


\* -------------------------------------------------------------------- C21
\* C21: after startHealthMonitoring() the deep and the quick health-check
\* interval are both active; after stop() both handles are null and no health
\* timer of the monitor is active, also when monitoring was never started or
\* stop() is called twice.
C21_MonitorIntervals ==
    /\ HasOp(ops, "startHealthMonitoring")
       => /\ mgr.healthCheckInterval = "active"
          /\ mgr.quickHealthCheckInterval = "active"
    /\ HasOp(ops, "stop")
       => /\ mgr.healthCheckInterval = "null"
          /\ mgr.quickHealthCheckInterval = "null"
          /\ mgr.healthTimers = 0


\* -------------------------------------------------------------------- C22
\* C22: start() of the cleanup manager registers exactly two periodic sweeps;
\* after a stop() no interval or timeout created by any earlier start() is
\* still running and the interval table is empty.
C22_StartStopSymmetric ==
    /\ HasOp(ops, "cleanupStart") => Cardinality(mgr.intervals) = 2
    /\ HasOp(ops, "cleanupStop")
       => mgr.intervals = {} /\ mgr.timeouts = {} /\ mgr.sweepTimers = 0


\* -------------------------------------------------------------------- C23
BarCalls == {i \in 1..Len(ops) : ops[i].op = "buildProgressBar"}
Glyphs(bar, glyph) == Cardinality({i \in 1..Len(bar) : bar[i] = glyph})
KnobAt(bar) == CHOOSE i \in 1..Len(bar) : bar[i] = "knob"

\* C23: for barLength 18, total > 0 and 0 <= position <= total the bar has
\* exactly barLength line glyphs around its one knob, floor(position / total *
\* barLength) of them (at most barLength) before the knob; for total <= 0 the
\* result is the empty string.
C23_ProgressBar ==
    \A i \in BarCalls :
       LET c == ops[i]
           bar == c.result
       IN  IF c.total <= 0 THEN bar = << >>
           ELSE /\ Glyphs(bar, "bar") = c.barLength
                /\ Glyphs(bar, "knob") = 1
                /\ Len(bar) = c.barLength + 1
                /\ KnobAt(bar) - 1 \in 0..c.barLength
                /\ (KnobAt(bar) - 1) * c.total <= c.position * c.barLength
                /\ c.position * c.barLength < KnobAt(bar) * c.total
                   \/ KnobAt(bar) - 1 = c.barLength

\* A bar for a position strictly inside a track whose duration is not a
\* multiple of the bar length.
C23_Witness ==
    \E i \in BarCalls :
       /\ ops[i].total = BAR_LENGTH + 1
       /\ ops[i].position = BAR_LENGTH
       /\ KnobAt(ops[i].result) = BAR_LENGTH

\* The empty bar of a track without duration.
C23_WitnessEmpty == \E i \in BarCalls : ops[i].total = 0 /\ ops[i].result = << >>


\* -------------------------------------------------------------------- C24
\* The calls of the step that put a control row on a message.
RowCalls == {i \in 1..Len(ops) : /\ ops[i].op \in {"send", "edit"}
                                 /\ ops[i].comps \notin {NoComponents, KeepComponents, confirmRow}}
ButtonIds(row) == [i \in 1..Len(row) |-> row[i].customId]
Disabled(row, id) == \E i \in 1..Len(row) : row[i].customId = id /\ row[i].disabled

\* C24: a rendered control row has exactly the five controls previous,
\* playpause, skip, shuffle, stop in that order; previous is disabled iff the
\* history is empty, skip iff the upcoming queue is empty, and the other three
\* are never disabled.
C24_ControlRow ==
    \A i \in RowCalls :
       LET row == ops[i].comps
           p == player[messages[ops[i].msg].owner]
       IN  /\ ButtonIds(row) = << "previous", "playpause", "skip", "shuffle", "stop" >>
           /\ Disabled(row, "previous") <=> p.previous = << >>
           /\ Disabled(row, "skip") <=> p.tracks = << >>
           /\ ~Disabled(row, "playpause")
           /\ ~Disabled(row, "shuffle")
           /\ ~Disabled(row, "stop")

\* A row was rendered for a session with history and an empty queue: skip is
\* disabled and previous is not.
C24_Witness ==
    \E i \in RowCalls : /\ Disabled(ops[i].comps, "skip")
                        /\ ~Disabled(ops[i].comps, "previous")
                        /\ used.press >= 1


\* -------------------------------------------------------------------- C25
\* C25: in the orphaned-player sweep and in the node-down cleanup a failure
\* while processing one session is caught where it happens, every other
\* session of the pass is still processed, and the pass does not throw: after
\* a sweep no orphaned session is left, nothing was thrown out of it or left
\* unhandled, and after a node-down cleanup no session of its snapshot is left.
C25_FailureIsolated ==
    /\ HasOp(ops, "sweep")
       => /\ ~HasOp(ops, "throw")
          /\ ~HasOp(ops, "unhandledRejection")
          /\ \A g \in players : Attached(g)
    /\ mgr.completed
       => \A i \in 1..Len(mgr.snapshot) :
             LET e == mgr.snapshot[i]
             IN  e.g \in players => player[e.g].id # e.id


\* ------------------------------------------------------------ C26 and C27
\* The session the node-down cleanup is working on.
CleanupSession == player[CleanupGuild]
CleanupStepOf(pcs) == mgr.pc \in pcs /\ mgr' # mgr

\* C26: for a session that is attached to voice but idle (not playing, no
\* current track) the node-down cleanup issues no edit to the status message.
C26_IdleNoEdit ==
    [][(/\ CleanupStepOf({"enter"})
        /\ CleanupSession.voice
        /\ ~CleanupSession.playing
        /\ CleanupSession.current = NoTrack)
       => ~HasOp(ops', "edit")]_vars

\* C27: for a session whose bot is not attached to a voice channel the
\* node-down cleanup makes no voice call: no player.disconnect and no guild
\* voice disconnect.
C27_NoVoiceAction ==
    [][(CleanupStepOf({"disconnect", "voice"}) /\ ~CleanupSession.voice)
       => /\ ~HasOp(ops', "playerDisconnect")
          /\ ~HasOp(ops', "voiceDisconnect")]_vars


\* -------------------------------------------------------------------- C28
\* The last instant the model's clock reaches.
Horizon == StartTime + MaxTicks * TickMs
\* A trailing timer of session g is pending and falls due within the horizon.
TrailingPending(g) == uiUpdateQueue[g] # Never /\ uiUpdateQueue[g] <= Horizon
\* A refresh of session g has passed the throttle at the present instant and
\* left no trailing timer behind.
Served(g) == uiUpdateQueue[g] = Never /\ player[g].lastUIUpdate = now

\* A step that schedules a trailing timer (a throttled non-fast request) makes
\* no transport call, and the step in which the trailing timer fires passes the
\* throttle: it is not queued again.
C28_ThrottledIsSilent ==
    [][\A g \in UIGuilds :
          /\ (uiUpdateQueue[g] = Never /\ uiUpdateQueue'[g] # Never)
             => TransportCalls(ops') = 0
          /\ (uiUpdateQueue[g] # Never /\ uiUpdateQueue'[g] # Never)
             => uiUpdateQueue'[g] = uiUpdateQueue[g]
          /\ (uiUpdateQueue[g] # Never /\ now >= uiUpdateQueue[g] /\ used' = used
              /\ uiUpdateQueue'[g] # uiUpdateQueue[g])
             => uiUpdateQueue'[g] = Never /\ player'[g].lastUIUpdate = now]_vars

\* C28: a non-fast refresh request that was throttled and left a trailing
\* timer is eventually served: the refresh runs past the throttle for that
\* session.
C28_EventuallyServed == \A g \in UIGuilds : TrailingPending(g) ~> Served(g)


\* -------------------------------------------------------------------- C29
\* A suspended invocation of session g at position pc starts in this step.
Begins(g, pc) ==
    \E t \in BagToSet(tasks') : t.g = g /\ t.pc = pc /\ CopiesIn(t, tasks') > CopiesIn(t, tasks)
\* A suspended invocation of session g at position pc continues in this step.
Continues(g, pc) ==
    \E t \in BagToSet(tasks) : t.g = g /\ t.pc = pc /\ CopiesIn(t, tasks') < CopiesIn(t, tasks)
\* An auto-stop timer of session g fires in this step (it is not cancelled).
PauseTimerFires(g) ==
    /\ timers'[g].pause < timers[g].pause
    /\ ~(player[g].pauseTimeout = "pending" /\ player'[g].pauseTimeout = "none")
\* The timer that fires is the one the session refers to, armed by its last pause.
FiresLastArmed(g) == player[g].pauseTimeout = "pending" /\ player'[g].pauseTimeout = "dead"

\* togglePlayPause step by step: on a playing session it snapshots the position
\* and pauses, and arms the auto-stop timer after the pause; a timer that fires
\* on a paused session invokes Stop and one that fires on a session that is not
\* paused does nothing; on a paused session the referenced timer is cancelled
\* in the step that resumes.
C29_ToggleSteps ==
    [][\A g \in UIGuilds :
          /\ Begins(g, "pause")
             => /\ ~player[g].paused /\ player'[g].paused
                /\ player'[g].pausedPosition = player[g].position
          /\ Continues(g, "pause")
             => /\ timers'[g].pause = timers[g].pause + 1
                /\ player'[g].pauseTimeout = "pending"
          /\ PauseTimerFires(g) => (Begins(g, "stopPlaying") <=> player[g].paused)
          /\ Begins(g, "resume")
             => /\ player[g].paused /\ ~player'[g].paused
                /\ player'[g].pauseTimeout = "none"
                /\ player[g].pauseTimeout = "pending"
                   => timers'[g].pause = timers[g].pause - 1]_vars

\* C29: the auto-stop timer that invokes Stop on a session is the one armed
\* for the pause the session is in; a timer armed for a pause the session has
\* left never stops it.
C29_StaleTimerNeverStops ==
    [][\A g \in UIGuilds :
          (PauseTimerFires(g) /\ Begins(g, "stopPlaying")) => FiresLastArmed(g)]_vars


\* -------------------------------------------------------------------- C30
\* The invocations of performStop on session g that are suspended in a bag.
StopTasks(bag, g) == {t \in BagToSet(bag) : t.g = g /\ t.kind \in StopKinds}
\* performStop returns in this step from its invocation t on a session that
\* has a status message when the stopped payload is to be shown.
StopCompletes(t) ==
    /\ t \in StopTasks(tasks, t.g)
    /\ CopiesIn(t, tasks') < CopiesIn(t, tasks)
    /\ \/ t.pc = "edit"
       \/ t.pc = "setVolume" /\ player[t.g].nowPlayingMessage # NoMsg
    /\ \A u \in StopTasks(tasks', t.g) : CopiesIn(u, tasks') <= CopiesIn(u, tasks)
\* The message performStop puts the stopped payload on.
StoppedMessage(t) == IF t.pc = "edit" THEN t.msg ELSE player[t.g].nowPlayingMessage

\* C30: when performStop returns on a session that had a status message, the
\* session refers to no collector and none of its collectors is active, its
\* refresh interval is cleared, its volume is the configured default and its
\* message handle is null, also when the final edit failed; performStop has not
\* deleted the message, and if the final edit succeeded the message shows the
\* stopped payload without controls.
C30_StopCompletes ==
    [][\A t \in BagToSet(tasks) :
          StopCompletes(t) =>
             LET g == t.g
                 m == StoppedMessage(t)
             IN  /\ player'[g].nowPlayingCollector = NoMsg
                 /\ \A c \in MsgIds : messages'[c].owner = g => ~messages'[c].collecting
                 /\ player'[g].nowPlayingInterval = "none"
                 /\ timers'[g].interval = 0
                 /\ player'[g].volume = DEFAULT_VOLUME
                 /\ player'[g].nowPlayingMessage = NoMsg
                 /\ ~HasOp(ops', "delete")
                 /\ (t.pc = "edit" /\ t.res = "ok" /\ messages'[m].exists)
                    => /\ messages'[m].embed = generateStoppedEmbed
                       /\ messages'[m].components = NoComponents]_vars


\* -------------------------------------------------------------------- C31
\* The handling of the button press t ends in this step with a failure: a
\* player call rejected or a transport call threw (performStop swallows the
\* failure of its own edit and goes on, which is no failure of the press).
PressFails(t) ==
    /\ t \in BagToSet(tasks)
    /\ t.kind \in ButtonKinds \cup RestoreKinds
    /\ t.src # NoMsg
    /\ CopiesIn(t, tasks') < CopiesIn(t, tasks)
    /\ \E i \in DOMAIN ops' :
          \/ ops'[i].op = "caught"
          \/ ops'[i].op = "throws" /\ ops'[i].by # "performStop"

\* The handling of the press t has run the teardown of performStop, which
\* stops the collector and drops the reference to it.
HasStoppedCollector(t) == t.kind = "confirmStop" /\ t.pc \in {"setVolume", "edit"}

\* C31: when the handling of a button press fails, nothing is thrown out of
\* the dispatch and that handling has not unregistered the collector of the
\* status message: it has not stopped it before failing and the failing step
\* leaves the collector and the reference to it as they were, so that later
\* presses on the message are dispatched.
C31_FailedPressKeepsCollector ==
    [][\A t \in BagToSet(tasks) :
          PressFails(t)
          => /\ ~HasThrow(ops')
             /\ ~HasStoppedCollector(t)
             /\ messages'[t.src].collecting = messages[t.src].collecting
             /\ player'[t.g].nowPlayingCollector = player[t.g].nowPlayingCollector]_vars


\* -------------------------------------------------------------------- C32
\* The manual refreshes of session g that are in progress.
InfoTasks(g) == {t \in BagToSet(tasks) : t.g = g /\ t.kind = "info"}
NumInfoTasks(g) ==
    LET S == InfoTasks(g)
        Sum[T \in SUBSET S] ==
            IF T = {} THEN 0
            ELSE LET x == CHOOSE y \in T : TRUE IN CopiesIn(x, tasks) + Sum[T \ {x}]
    IN  Sum[S]

\* C32: at most one manual refresh is in progress per session, and the
\* refresh-in-progress flag of the session is set exactly while one is: set
\* across all its await points and cleared when it has ended.
C32_OneManualRefresh ==
    \A g \in UIGuilds :
        /\ NumInfoTasks(g) <= 1
        /\ player[g].uiRefreshing <=> NumInfoTasks(g) = 1

\* An info command that finds the flag set makes no delete and no send.
C32_RefusedIsSilent ==
    [][(\E i \in DOMAIN ops' : ops'[i].op = "reply")
       => /\ ~HasOp(ops', "delete")
          /\ ~HasOp(ops', "send")
          /\ tasks' = tasks]_vars


\* -------------------------------------------------------------------- C33
\* The handling of a node failure reaches its _scheduleReconnect in this step.
FailureScheduled == mgr.pc = "finally" /\ mgr'.pc = "idle"
\* A reconnect timer fires in this step.
ReconnectTimerFires == mgr'.reconnectTimers < mgr.reconnectTimers \/ HasOp(ops', "connect")

\* A successful connect clears the attempt counter, and a reconnect timer that
\* fires while the node is connected makes no connect call.
C33_ConnectClearsCounter ==
    [][/\ (~mgr.connected /\ mgr'.connected) => mgr'.attempts = 0
       /\ (mgr.connected /\ mgr.reconnectTimers > 0 /\ mgr'.reconnectTimers < mgr.reconnectTimers)
          => ~HasOp(ops', "connect")]_vars

\* C33: the first node failure handled after a successful connect is scheduled
\* with the full budget and the base delay: the counter is 0 when
\* _scheduleReconnect is reached and the timer it schedules has the delay
\* reconnectDelay.
C33_NextFailureFromBase ==
    [][(FailureScheduled /\ mgr.handled = 1)
       => /\ mgr.attempts = 0
          /\ mgr'.attempts = 1
          /\ mgr'.scheduled[Len(mgr'.scheduled)] = reconnectDelay]_vars

\* The reachable state the scenario may start from.
C33_WaitingReachable == mgr = WaitingManager /\ used.env > 0


\* -------------------------------------------------------------------- C34
\* The delayed reset of the queueEnd handler runs for the session in this step.
QueueEndResetRuns(g) == timers'[g].queueEndReset < timers[g].queueEndReset

\* C34: whenever the delayed queue-end reset runs for a session, the session
\* has no current track.
C34_ResetOnlyWhenIdle ==
    [][\A g \in Guilds : QueueEndResetRuns(g) => player[g].current = NoTrack]_vars


\* -------------------------------------------------------------------- C35
\* C35: at most one pause auto-stop timer is pending per session.
C35_OnePauseTimer == \A g \in Guilds : timers[g].pause <= 1

\* A pause auto-stop timer that invokes Stop is the one armed by the pause the
\* session is in, also after an earlier pause was ended by a skip, a stop or a
\* new track.
C35_EarlierPauseNeverStops ==
    [][\A g \in UIGuilds :
          (PauseTimerFires(g) /\ player[g].paused) => FiresLastArmed(g)]_vars


\* -------------------------------------------------------------------- C36
\* C36: the session's pending-confirmation marker is set only while its stop
\* confirmation is pending: once the timer has fired or has been cleared by
\* cancel or confirm, the stored handle is cleared.
C36_MarkerCleared ==
    \A g \in Guilds : player[g].stopConfirmationTimeout \in {"none", "pending"}

\* A periodic refresh outside a pending stop confirmation edits the controls
\* together with the embed.
C36_RefreshUpdatesControls ==
    [][\A g \in UIGuilds :
          (timers[g].stopConfirm = 0 /\ player[g].current # NoTrack)
          => \A i \in 1..Len(ops') :
                 (ops'[i].op = "edit" /\ ops'[i].by = "tick")
                 => ops'[i].comps # KeepComponents]_vars

\* At most one stop-confirmation timer is pending per session.
C36_OneStopConfirmation == \A g \in Guilds : timers[g].stopConfirm <= 1


\* -------------------------------------------------------------------- C37
\* C37: at most one reconnect timer is pending for the node.
C37_OneReconnectTimer == mgr.reconnectTimers <= 1

\* The handling of a node-down signal for a node that already waits for a
\* reconnect timer schedules no further timer and leaves the attempt counter.
C37_WaitingNodeKeepsBudget ==
    [][(FailureScheduled /\ mgr.reconnectTimers > 0)
       => /\ mgr'.reconnectTimers = mgr.reconnectTimers
          /\ mgr'.attempts = mgr.attempts]_vars


\* -------------------------------------------------------------------- C38
\* The info command has deleted the status message of session g, dropped the
\* handle and requested the refresh while a track is current: the request is
\* being served, or it was throttled and waits for a trailing timer that falls
\* due within the horizon.  (The channel can still take a message: the ids of
\* MsgIds are not used up.)
ManualRefreshRequested(g) ==
    /\ nextMsg <= MaxMsgs
    /\ player[g].current # NoTrack
    /\ player[g].nowPlayingMessage = NoMsg
    /\ \/ TrailingPending(g)
       \/ \E t \in InfoTasks(g) : t.pc # "info_delete"

\* C38: a manual refresh that was requested while a track is current leads to
\* a new status message of the session.
C38_ManualRefreshServed ==
    \A g \in UIGuilds : ManualRefreshRequested(g) ~> HasUI(player[g])

\* The request of the info command has been throttled.
C38_Throttled ==
    \E g \in UIGuilds : /\ ManualRefreshRequested(g)
                        /\ TrailingPending(g)
                        /\ InfoTasks(g) = {}


\* -------------------------------------------------------------------- C39
\* The queue command is given for session g with the argument arg in this step.
Jumps(g, arg) ==
    /\ player[g].current # NoTrack
    /\ \E i \in 1..Len(ops') : ops'[i] = [op |-> "queueJump", target |-> arg]
\* The merged index h + t of a numeric target, in halves, is within merged.
InRange(p, arg) ==
    /\ ~arg.nan
    /\ 2 * Len(p.previous) + arg.halves >= 0
    /\ 2 * Len(p.previous) + arg.halves < 2 * Len(getMergedQueue(p))
\* A play is started for session g in this step.
PlayStarted(g) == timers'[g].trackStart > timers[g].trackStart \/ tasks' # tasks

\* C39: a jump with a numeric target whose merged index is in range keeps the
\* merged sequence (no track lost, duplicated or reordered), and for a whole
\* target the new current track is merged[h + t]; a jump whose index is out of
\* range or whose argument is not a number leaves current, history and upcoming
\* as they were and starts no play.
C39_JumpKeepsMerged ==
    [][\A g \in UIGuilds : \A arg \in JumpTargets :
          Jumps(g, arg)
          => LET p == player[g]
                 q == player'[g]
                 merged == getMergedQueue(p)
             IN  IF InRange(p, arg)
                 THEN /\ getMergedQueue(q) = merged
                      /\ arg.halves % 2 = 0
                         => q.current = merged[Len(p.previous) + arg.halves \div 2 + 1]
                 ELSE /\ q.current = p.current
                      /\ q.previous = p.previous
                      /\ q.tracks = p.tracks
                      /\ ~PlayStarted(g)]_vars

\* The same for whole targets only.
C39_WholeJumpKeepsMerged ==
    [][\A g \in UIGuilds : \A arg \in JumpTargets :
          (Jumps(g, arg) /\ arg.halves % 2 = 0)
          => LET p == player[g]
                 q == player'[g]
                 merged == getMergedQueue(p)
             IN  IF InRange(p, arg)
                 THEN /\ getMergedQueue(q) = merged
                      /\ q.current = merged[Len(p.previous) + arg.halves \div 2 + 1]
                      /\ PlayStarted(g)
                 ELSE /\ q.current = p.current
                      /\ q.previous = p.previous
                      /\ q.tracks = p.tracks
                      /\ ~PlayStarted(g)]_vars

====
